---- MODULE Spec2Model ----
(***************************************************************************)
(* State-machine model of the news scraper core: the item pipelines        *)
(* (pipelines.py), the item loader (items.py), the field extractor         *)
(* (utils/extractor.py), the date parser (utils/date_parser.py) and the    *)
(* article callback of the spider (spiders/universal_spider.py).           *)
(*                                                                         *)
(* Python str values are TLA+ strings; TLC evaluates Len, \o, SubSeq,      *)
(* Head and Tail on them character by character.  Python None is the       *)
(* model value None, a dict is a function whose DOMAIN is its key set.     *)
(***************************************************************************)
EXTENDS Integers, Sequences, FiniteSets, TLC

VARIABLES
    seen_urls,        \* DeduplicationPipeline.seen_urls
    seen_ids,         \* DeduplicationPipeline.seen_ids
    duplicate_count,  \* DeduplicationPipeline.duplicate_count
    calls,            \* the process_item calls made so far: <<item, outcome>> records
    pc,               \* per worker: the statement of process_item it is at
    cur,              \* per worker: the item its process_item call was given
    title,            \* DataCleaningPipeline: the title being cleaned, item["title"]
    title_hist,       \* the title at the start and after each _clean_title pass
    now,              \* the clock: seconds since the spider was constructed
    start_date,       \* UniversalNewsSpider.start_date
    stats,            \* UniversalNewsSpider.stats
    fetched,          \* the article responses parse_article was called with
    scraped,          \* items yielded by parse_article, not yet in the pipelines
    dropped,          \* the DropItem raised by the pipelines: <<stage, reason, item>>
    stored,           \* items returned by DataCleaningPipeline, handed to storage
    cur_config,       \* DataExtractor.extract_field: its field_config argument
    cur_response,     \* DataExtractor.extract_field: its response argument
    extraction,       \* the extract_field call: its result and the queries made
    cur_field,        \* DataCleaningPipeline: the item field being cleaned
    value_hist,       \* item[cur_field] at the start and after each pass of its transform
    validated,        \* the ValidationPipeline.process_item calls: item, outcome, warning
    resource,         \* the configuration file at MultiSiteExtractor.config_path
    configs,          \* MultiSiteExtractor.configs, a dict in insertion order
    extractors,       \* MultiSiteExtractor.extractors, a dict in insertion order
    load_local,       \* _load_configs: its local configs (json.load) and loop position
    reg_pc,           \* the statement of __init__ / reload_configs / _load_configs reached
    reg_call,         \* the running or last registry call: its name, the index before
                      \* it, the file as it found it, the error it logged, its outcome
    url_check,        \* the is_valid_article_url call: url_patterns, url and result
    date_call,        \* the DateParser.parse call: text, parser type, clock and result
    proc_call         \* the _apply_filter or _process_result call: arguments and result

dedupVars == <<seen_urls, seen_ids, duplicate_count, calls, pc, cur>>
titleVars == <<title, title_hist>>
spiderVars == <<now, start_date, stats, fetched, scraped, dropped, stored>>
extractVars == <<cur_config, cur_response, extraction>>
cleanVars == <<cur_field, value_hist>>
validationVars == <<validated>>
registryVars == <<resource, configs, extractors, load_local, reg_pc, reg_call>>
urlVars == <<url_check>>
dateVars == <<date_call>>
processVars == <<proc_call>>

\* the state of the cleaning transforms, the validation stage, the source
\* registry, the url check and the date parser
otherVars == <<cleanVars, validationVars, registryVars, urlVars, dateVars, processVars>>

\* what the DeduplicationPipeline steps leave alone
notDedup == <<titleVars, spiderVars, extractVars, otherVars>>

vars == <<dedupVars, titleVars, spiderVars, extractVars, otherVars>>

-----------------------------------------------------------------------------
(* Bounds of the model *)

\* number of process_item calls made on one DeduplicationPipeline
MaxCalls == 3

-----------------------------------------------------------------------------
(* Python built-ins *)

\* dict.get(key, default)
Get(d, key, default) == IF key \in DOMAIN d THEN d[key] ELSE default

\* s[i-1:i], the i-th character
Char(s, i) == SubSeq(s, i, i)

\* set(s), the characters of s
CharsOf(s) == {Char(s, i) : i \in 1..Len(s)}

\* the characters str.split() and str.strip() take for whitespace
Whitespace == {" ", "\t", "\n", "\r", "\f"}

\* s.startswith(p), s.endswith(p), sub in s
StartsWith(s, p) == Len(p) <= Len(s) /\ SubSeq(s, 1, Len(p)) = p
EndsWith(s, p) == Len(p) <= Len(s) /\ SubSeq(s, Len(s) - Len(p) + 1, Len(s)) = p
Contains(s, sub) ==
    \E i \in 1..(Len(s) - Len(sub) + 1) : SubSeq(s, i, i + Len(sub) - 1) = sub

\* s.lstrip(chars), s.rstrip(chars), s.strip(chars) for a set of characters
RECURSIVE LStripChars(_, _)
LStripChars(s, chars) ==
    IF Len(s) > 0 /\ Char(s, 1) \in chars THEN LStripChars(Tail(s), chars) ELSE s

RECURSIVE RStripChars(_, _)
RStripChars(s, chars) ==
    IF Len(s) > 0 /\ Char(s, Len(s)) \in chars
    THEN RStripChars(SubSeq(s, 1, Len(s) - 1), chars)
    ELSE s

StripChars(s, chars) == RStripChars(LStripChars(s, chars), chars)

\* s.strip()
Strip(s) == StripChars(s, Whitespace)

\* the length of the longest prefix of s free of the characters in chars
RECURSIVE SpanNot(_, _)
SpanNot(s, chars) ==
    IF Len(s) = 0 \/ Char(s, 1) \in chars THEN 0 ELSE 1 + SpanNot(Tail(s), chars)

\* s.split(): the maximal runs of non-whitespace characters, in order
RECURSIVE SplitWs(_)
SplitWs(s) ==
    LET t == LStripChars(s, Whitespace)
        n == SpanNot(t, Whitespace)
    IN  IF Len(t) = 0 THEN <<>>
        ELSE <<SubSeq(t, 1, n)>> \o SplitWs(SubSeq(t, n + 1, Len(t)))

\* s.split(sep) for a one-character sep: the pieces between the separators
RECURSIVE SplitOn(_, _)
SplitOn(s, sep) ==
    LET n == SpanNot(s, {sep})
    IN  IF n = Len(s) THEN <<s>>
        ELSE <<SubSeq(s, 1, n)>> \o SplitOn(SubSeq(s, n + 2, Len(s)), sep)

\* sep.join(parts)
RECURSIVE Join(_, _)
Join(sep, parts) ==
    IF Len(parts) = 0 THEN ""
    ELSE IF Len(parts) = 1 THEN parts[1]
    ELSE parts[1] \o sep \o Join(sep, Tail(parts))

\* hashlib.md5(url.encode("utf-8")).hexdigest(): a digest that is a function of
\* the whole text and differs from it; over the URLs of the model it is free of
\* collisions, as MD5 is over any handful of short distinct texts.
Md5Hex(text) == "md5(" \o text \o ")"

-----------------------------------------------------------------------------
(* datetime.datetime: the values, fromisoformat, isoformat, comparison *)

DigitChars == "0123456789"

DigitSet == CharsOf(DigitChars)

IsDigit(c) == c \in DigitSet

DigitVal(c) == (CHOOSE d \in 1..10 : Char(DigitChars, d) = c) - 1

AllDigits(s) == Len(s) > 0 /\ \A i \in 1..Len(s) : IsDigit(Char(s, i))

\* int(s) for a text of decimal digits
RECURSIVE ToInt(_)
ToInt(s) ==
    IF Len(s) = 0 THEN 0
    ELSE 10 * ToInt(SubSeq(s, 1, Len(s) - 1)) + DigitVal(Char(s, Len(s)))

\* the decimal text of n, zero-filled to w characters
RECURSIVE ZeroFill(_, _)
ZeroFill(n, w) ==
    LET t == ToString(n) IN IF Len(t) >= w THEN t ELSE "0" \o ZeroFill(n, w - 1)

IsLeap(y) == (y % 4 = 0 /\ y % 100 # 0) \/ y % 400 = 0

DaysInMonth(y, m) ==
    IF m = 2 THEN (IF IsLeap(y) THEN 29 ELSE 28)
    ELSE IF m \in {4, 6, 9, 11} THEN 30 ELSE 31

\* tzinfo of a naive datetime
NoTz == "naive"

\* a datetime; tz is NoTz or the utc offset in minutes, as text with its sign
DateTime(y, mo, d, h, mi, sec, us, tz) ==
    [year |-> y, month |-> mo, day |-> d, hour |-> h, minute |-> mi,
     second |-> sec, microsecond |-> us, tz |-> tz]

\* what an operation that may raise gives back: a value, or the exception
Ok(v) == [ok |-> TRUE, value |-> v]
Raise(e) == [ok |-> FALSE, exc |-> e]

\* the fields datetime(...) checks, ValueError otherwise
ValidDateTime(y, mo, d, h, mi, sec) ==
    /\ y \in 1..9999
    /\ mo \in 1..12
    /\ d >= 1 /\ d <= DaysInMonth(y, mo)
    /\ h \in 0..23
    /\ mi \in 0..59
    /\ sec \in 0..59

\* the position of the first "+" or "-" of t, 0 when there is none
SignPos(t) ==
    LET n == SpanNot(t, {"+", "-"}) IN IF n = Len(t) THEN 0 ELSE n + 1

\* the time of day "HH", "HH:MM", "HH:MM:SS", "HH:MM:SS.fff" or
\* "HH:MM:SS.ffffff" as <<h, m, s, us>>, <<>> when t has none of these forms
IsoTime(t) ==
    LET n == Len(t)
        hh == SubSeq(t, 1, 2)
        mm == SubSeq(t, 4, 5)
        ss == SubSeq(t, 7, 8)
        ff == SubSeq(t, 10, n)
    IN  IF n = 2 /\ AllDigits(hh) THEN <<ToInt(hh), 0, 0, 0>>
        ELSE IF n = 5 /\ AllDigits(hh) /\ Char(t, 3) = ":" /\ AllDigits(mm)
        THEN <<ToInt(hh), ToInt(mm), 0, 0>>
        ELSE IF /\ n \in {8, 12, 15}
                /\ AllDigits(hh) /\ Char(t, 3) = ":" /\ AllDigits(mm)
                /\ Char(t, 6) = ":" /\ AllDigits(ss)
                /\ (n > 8 => Char(t, 9) = "." /\ AllDigits(ff))
        THEN <<ToInt(hh), ToInt(mm), ToInt(ss),
               IF n = 8 THEN 0 ELSE IF n = 12 THEN 1000 * ToInt(ff) ELSE ToInt(ff)>>
        ELSE <<>>

\* the utc offset "+HH:MM" or "-HH:MM" as signed text of minutes, "" when z
\* has not this form
IsoOffset(z) ==
    IF /\ Len(z) = 6
       /\ AllDigits(SubSeq(z, 2, 3)) /\ Char(z, 4) = ":" /\ AllDigits(SubSeq(z, 5, 6))
       /\ ToInt(SubSeq(z, 2, 3)) < 24 /\ ToInt(SubSeq(z, 5, 6)) < 60
    THEN Char(z, 1) \o ToString(60 * ToInt(SubSeq(z, 2, 3)) + ToInt(SubSeq(z, 5, 6)))
    ELSE ""

\* datetime.fromisoformat(s), for the forms every Python 3.7+ reads:
\* YYYY-MM-DD, then optionally one separator character, a time of day and a
\* utc offset.  Anything else raises ValueError.
FromIsoFormat(s) ==
    LET dstr == SubSeq(s, 1, 10)
        tstr == SubSeq(s, 12, Len(s))
        sp == SignPos(tstr)
        tpart == IF sp = 0 THEN tstr ELSE SubSeq(tstr, 1, sp - 1)
        zpart == IF sp = 0 THEN "" ELSE SubSeq(tstr, sp, Len(tstr))
        dateOk == /\ Len(s) >= 10
                  /\ AllDigits(SubSeq(dstr, 1, 4)) /\ Char(dstr, 5) = "-"
                  /\ AllDigits(SubSeq(dstr, 6, 7)) /\ Char(dstr, 8) = "-"
                  /\ AllDigits(SubSeq(dstr, 9, 10))
        y == ToInt(SubSeq(dstr, 1, 4))
        mo == ToInt(SubSeq(dstr, 6, 7))
        d == ToInt(SubSeq(dstr, 9, 10))
        tm == IF Len(s) = 10 THEN <<0, 0, 0, 0>> ELSE IsoTime(tpart)
        tz == IF zpart = "" THEN NoTz ELSE IsoOffset(zpart)
    IN  IF /\ dateOk
           /\ Len(s) # 11
           /\ tm # <<>>
           /\ tz # ""
           /\ ValidDateTime(y, mo, d, tm[1], tm[2], tm[3])
        THEN Ok(DateTime(y, mo, d, tm[1], tm[2], tm[3], tm[4], tz))
        ELSE Raise("ValueError")

\* the utc offset of isoformat: "+HH:MM" or "-HH:MM"
OffsetText(tz) ==
    LET m == ToInt(SubSeq(tz, 2, Len(tz)))
    IN  Char(tz, 1) \o ZeroFill(m \div 60, 2) \o ":" \o ZeroFill(m % 60, 2)

\* dt.isoformat()
IsoFormat(dt) ==
    ZeroFill(dt.year, 4) \o "-" \o ZeroFill(dt.month, 2) \o "-" \o ZeroFill(dt.day, 2)
        \o "T" \o ZeroFill(dt.hour, 2) \o ":" \o ZeroFill(dt.minute, 2)
        \o ":" \o ZeroFill(dt.second, 2)
        \o (IF dt.microsecond = 0 THEN "" ELSE "." \o ZeroFill(dt.microsecond, 6))
        \o (IF dt.tz = NoTz THEN "" ELSE OffsetText(dt.tz))

\* the fields compared from the most significant down
DateTimeKey(dt) ==
    <<dt.year, dt.month, dt.day, dt.hour, dt.minute, dt.second, dt.microsecond>>

RECURSIVE LexLess(_, _)
LexLess(a, b) ==
    IF Len(a) = 0 THEN FALSE
    ELSE IF a[1] # b[1] THEN a[1] < b[1]
    ELSE LexLess(Tail(a), Tail(b))

\* a >= b for two datetimes: an offset-aware one cannot be compared with a
\* naive one (TypeError); two naive ones compare field by field.
DateTimeGe(a, b) ==
    IF (a.tz = NoTz) # (b.tz = NoTz) THEN Raise("TypeError")
    ELSE Ok(~LexLess(DateTimeKey(a), DateTimeKey(b)))

\* days in the years before year y (datetime._days_before_year)
DaysBeforeYear(y) ==
    LET p == y - 1 IN p * 365 + (p \div 4) - (p \div 100) + (p \div 400)

\* days in the months of year y before month m (datetime._days_before_month)
RECURSIVE DaysBeforeMonth(_, _)
DaysBeforeMonth(y, m) ==
    IF m = 1 THEN 0 ELSE DaysBeforeMonth(y, m - 1) + DaysInMonth(y, m - 1)

\* date.toordinal(): 1 for 0001-01-01
ToOrdinal(y, m, d) == DaysBeforeYear(y) + DaysBeforeMonth(y, m) + d

\* the year the day of ordinal n lies in, n >= 1
YearOfOrdinal(n) ==
    LET n0 == n - 1
        n400 == n0 \div 146097
        r400 == n0 % 146097
        n100 == r400 \div 36524
        r100 == r400 % 36524
        n4 == r100 \div 1461
        r4 == r100 % 1461
        n1 == r4 \div 365
        y == n400 * 400 + n100 * 100 + n4 * 4 + n1 + 1
    IN  IF n1 = 4 \/ n100 = 4 THEN y - 1 ELSE y

\* the month of year y the day-of-year k (1 based) lies in
RECURSIVE MonthOfDay(_, _, _)
MonthOfDay(y, k, m) ==
    IF k <= DaysBeforeMonth(y, m) + DaysInMonth(y, m) THEN m
    ELSE MonthOfDay(y, k, m + 1)

\* date.fromordinal(n) as <<year, month, day>>, n >= 1
FromOrdinal(n) ==
    LET y == YearOfOrdinal(n)
        k == n - DaysBeforeYear(y)
        m == MonthOfDay(y, k, 1)
    IN  <<y, m, k - DaysBeforeMonth(y, m)>>

\* dt - timedelta(days=days, minutes=minutes) for a naive dt: OverflowError
\* when the timedelta has more than 999999999 days or the result is not in
\* 0001-01-01 .. 9999-12-31 (ordinals 1 .. 3652059)
MinusDelta(dt, days, minutes) ==
    LET mins == dt.hour * 60 + dt.minute - (minutes % 1440)
        borrow == IF mins < 0 THEN 1 ELSE 0
        m2 == mins + 1440 * borrow
        ord == ToOrdinal(dt.year, dt.month, dt.day) - days - (minutes \div 1440)
                   - borrow
        ymd == FromOrdinal(ord)
    IN  IF days + (minutes \div 1440) > 999999999 \/ ord < 1 \/ ord > 3652059
        THEN Raise("OverflowError")
        ELSE Ok([dt EXCEPT !.year = ymd[1], !.month = ymd[2], !.day = ymd[3],
                           !.hour = m2 \div 60, !.minute = m2 % 60])

\* dt - timedelta(days=n), n small enough for the result to exist
MinusDays(dt, n) == MinusDelta(dt, n, 0).value

-----------------------------------------------------------------------------
(* items.py *)

generate_news_id(url) == IF url = "" THEN "" ELSE Md5Hex(url)

\* clean_text
clean_text(text) == IF text = "" THEN "" ELSE Strip(Join(" ", SplitWs(text)))

\* A value a selector configuration yields (extract_field's return value): one
\* str, or a list of str.  None is the key being absent from the dict.
StrV(text) == [str |-> text]
ListV(texts) == [list |-> texts]
IsStr(v) == "str" \in DOMAIN v
IsList(v) == "list" \in DOMAIN v

\* bool(v) of such a value
Truthy(v) == IF IsStr(v) THEN v.str # "" ELSE Len(v.list) > 0

\* itemloaders' arg_to_iter: a str becomes a one-element list
ArgToIter(v) == IF IsStr(v) THEN <<v.str>> ELSE v.list

\* NewsItem: the declared fields
NewsItemFields ==
    {"news_id", "title", "url", "content", "summary", "author", "publish_time",
     "update_time", "category", "images", "videos", "source_name",
     "source_country", "language", "view_count", "comment_count", "crawl_time",
     "raw_html"}

\* NewsItem: the fields declared with input_processor=MapCompose(clean_text)
CleanTextFields == {"title", "content", "summary", "author"}

RECURSIVE MapSeq(_, _)
\* MapCompose(clean_text) over the values added, Identity for the other fields
MapSeq(field, values) ==
    IF Len(values) = 0 THEN <<>>
    ELSE <<IF field \in CleanTextFields THEN clean_text(values[1]) ELSE values[1]>>
             \o MapSeq(field, Tail(values))

\* ItemLoader.add_value(field, value): the loader's collected values afterwards
AddValue(loader, field, values) ==
    LET processed == MapSeq(field, values)
    IN  IF Len(processed) = 0 THEN loader
        ELSE [f \in DOMAIN loader \cup {field} |->
                 IF f = field THEN Get(loader, f, <<>>) \o processed ELSE loader[f]]

\* A slip: the output processor takes the value added last.
RECURSIVE TakeLast(_)
TakeLast(values) ==
    IF Len(values) = 0 THEN <<>>
    ELSE IF values[Len(values)] # "" THEN <<values[Len(values)]>>
    ELSE TakeLast(SubSeq(values, 1, Len(values) - 1))

\* TakeFirst(), the output processor of every field (default_output_processor;
\* the fields' out_processor key is not one the loader reads): the first value
\* that is not empty, as a list of one, or the empty list for None.
RECURSIVE TakeFirst(_)
TakeFirst(values) ==
    IF Len(values) = 0 THEN <<>>
    ELSE IF values[1] # "" THEN <<values[1]>>
    ELSE TakeFirst(Tail(values))

\* ItemLoader.load_item: every collected field whose output value is not None
SuperLoadItem(loader) ==
    [f \in {g \in DOMAIN loader : TakeFirst(loader[g]) # <<>>} |->
        TakeFirst(loader[f])[1]]

\* item.get(field) is falsy
Falsy(item, field) == field \notin DOMAIN item \/ item[field] = ""

\* item[field] = value
SetField(item, field, value) ==
    [f \in DOMAIN item \cup {field} |-> IF f = field THEN value ELSE item[f]]

\* NewsItemLoader.load_item at the time now_iso = datetime.now().isoformat()
load_item(loader, now_iso) ==
    LET item == SuperLoadItem(loader)
        with_id == IF Falsy(item, "news_id") /\ ~Falsy(item, "url")
                   THEN SetField(item, "news_id", generate_news_id(item["url"]))
                   ELSE item
    IN  IF Falsy(with_id, "crawl_time")
        THEN SetField(with_id, "crawl_time", now_iso)
        ELSE with_id

-----------------------------------------------------------------------------
(* pipelines.py: DeduplicationPipeline *)

Accepted == "accepted"
DropDuplicateUrl == "duplicate url"
DropDuplicateId == "duplicate id"

\* DeduplicationPipeline.__init__
DedupInit == [seen_urls |-> {}, seen_ids |-> {}, duplicate_count |-> 0]

\* A slip: the url is recorded only once the id check has passed.
DedupProcessItemUrlAfterId(self, item) ==
    LET url == Get(item, "url", "")
        news_id == Get(item, "news_id", "")
    IN  IF url \in self.seen_urls
        THEN [self |-> [self EXCEPT !.duplicate_count = @ + 1],
              outcome |-> DropDuplicateUrl]
        ELSE IF news_id \in self.seen_ids
        THEN [self |-> [self EXCEPT !.duplicate_count = @ + 1],
              outcome |-> DropDuplicateId]
        ELSE [self |-> [self EXCEPT !.seen_urls = @ \cup {url},
                                    !.seen_ids = @ \cup {news_id}],
              outcome |-> Accepted]

\* A slip: a duplicate id is dropped without being counted.
DedupProcessItemIdNotCounted(self, item) ==
    LET url == Get(item, "url", "")
        news_id == Get(item, "news_id", "")
    IN  IF url \in self.seen_urls
        THEN [self |-> [self EXCEPT !.duplicate_count = @ + 1],
              outcome |-> DropDuplicateUrl]
        ELSE LET s1 == [self EXCEPT !.seen_urls = @ \cup {url}]
             IN  IF news_id \in s1.seen_ids
                 THEN [self |-> s1, outcome |-> DropDuplicateId]
                 ELSE [self |-> [s1 EXCEPT !.seen_ids = @ \cup {news_id}],
                       outcome |-> Accepted]

\* A slip: "self.seen_urls = {url}", the set is replaced, not added to.
DedupProcessItemUrlReplaced(self, item) ==
    LET url == Get(item, "url", "")
        news_id == Get(item, "news_id", "")
    IN  IF url \in self.seen_urls
        THEN [self |-> [self EXCEPT !.duplicate_count = @ + 1],
              outcome |-> DropDuplicateUrl]
        ELSE LET s1 == [self EXCEPT !.seen_urls = {url}]
             IN  IF news_id \in s1.seen_ids
                 THEN [self |-> [s1 EXCEPT !.duplicate_count = @ + 1],
                       outcome |-> DropDuplicateId]
                 ELSE [self |-> [s1 EXCEPT !.seen_ids = @ \cup {news_id}],
                       outcome |-> Accepted]

\* DeduplicationPipeline.process_item, run without interruption: the pipeline
\* object after the call, and whether the item was returned or DropItem raised.
DedupProcessItem(self, item) ==
    LET url == Get(item, "url", "")
        news_id == Get(item, "news_id", "")
    IN  IF url \in self.seen_urls
        THEN [self |-> [self EXCEPT !.duplicate_count = @ + 1],
              outcome |-> DropDuplicateUrl]
        ELSE LET s1 == [self EXCEPT !.seen_urls = @ \cup {url}]
             IN  IF news_id \in s1.seen_ids
                 THEN [self |-> [s1 EXCEPT !.duplicate_count = @ + 1],
                       outcome |-> DropDuplicateId]
                 ELSE [self |-> [s1 EXCEPT !.seen_ids = @ \cup {news_id}],
                       outcome |-> Accepted]

\* The pipeline object held in the state variables.
DedupSelf ==
    [seen_urls |-> seen_urls, seen_ids |-> seen_ids,
     duplicate_count |-> duplicate_count]

-----------------------------------------------------------------------------
(* spiders/universal_spider.py *)

\* s.replace(old, new) for a one-character old
RECURSIVE Replace(_, _, _)
Replace(s, old, new) ==
    IF Len(s) = 0 THEN ""
    ELSE (IF Char(s, 1) = old THEN new ELSE Char(s, 1)) \o Replace(Tail(s), old, new)

\* datetime.now() when the clock shows tick
NowAt(tick) == DateTime(2026, 11, 1, 9, 0, tick, 0, NoTz)

\* UniversalNewsSpider.__init__, lines 87-88
SpiderStartDate(days_back) == MinusDays(NowAt(0), days_back)

\* A slip: "except: return False", a date that does not parse counts as old.
is_valid_date_strict(date_string, start) ==
    IF IsList(date_string) THEN FALSE
    ELSE LET parsed == FromIsoFormat(Replace(date_string.str, "Z", "+00:00"))
         IN  IF ~parsed.ok THEN FALSE
             ELSE LET ge == DateTimeGe(parsed.value, start)
                  IN  IF ge.ok THEN ge.value ELSE FALSE

\* UniversalNewsSpider._is_valid_date: any exception (a list has no replace,
\* fromisoformat's ValueError, the TypeError of comparing an aware with a naive
\* datetime) is caught and answers True.
is_valid_date(date_string, start) ==
    IF IsList(date_string) THEN TRUE
    ELSE LET parsed == FromIsoFormat(Replace(date_string.str, "Z", "+00:00"))
         IN  IF ~parsed.ok THEN TRUE
             ELSE LET ge == DateTimeGe(parsed.value, start)
                  IN  IF ge.ok THEN ge.value ELSE TRUE

\* UniversalNewsSpider._extract_category, the loop from list page i on
RECURSIVE ExtractCategoryFrom(_, _, _)
ExtractCategoryFrom(url, list_pages, i) ==
    IF i > Len(list_pages) THEN "general"
    ELSE LET page_url == Get(list_pages[i], "url", "")
             parts == SplitOn(page_url, "/")
             page_path == parts[Len(parts)]
         IN  IF page_url # "" /\ page_path # "" /\ Contains(url, page_path)
             THEN Get(list_pages[i], "category", "general")
             ELSE ExtractCategoryFrom(url, list_pages, i + 1)

extract_category(url, config) ==
    ExtractCategoryFrom(url, Get(config, "list_pages", <<>>), 1)

\* loader.add_value(name, config.get(name)): None adds nothing
AddConfigValue(loader, field, config, key) ==
    IF key \in DOMAIN config THEN AddValue(loader, field, <<config[key]>>) ELSE loader

\* lines 233-241: the extracted fields added in the order of the dict
RECURSIVE AddExtracted(_, _, _)
AddExtracted(loader, data, order) ==
    IF Len(order) = 0 THEN loader
    ELSE LET f == order[1]
             next == IF f \in DOMAIN data /\ f \in NewsItemFields
                        /\ f \notin {"article_links", "list_page_url"}
                     THEN AddValue(loader, f, ArgToIter(data[f]))
                     ELSE loader
         IN  AddExtracted(next, data, Tail(order))

\* the order of the selectors of a source configuration
FieldOrder == <<"title", "content", "publish_time", "news_id", "url", "tags">>

\* lines 221-241: the loader filled by parse_article
ArticleLoader(response, now_iso) ==
    LET config == response.source_config
        l1 == AddValue(<<>>, "news_id", <<generate_news_id(response.url)>>)
        l2 == AddValue(l1, "url", <<response.url>>)
        l3 == AddValue(l2, "crawl_time", <<now_iso>>)
        l4 == AddConfigValue(l3, "source_name", config, "name")
        l5 == AddConfigValue(l4, "source_country", config, "country")
        l6 == AddConfigValue(l5, "language", config, "language")
        l7 == AddValue(l6, "category", <<extract_category(response.url, config)>>)
    IN  AddExtracted(l7, response.extracted_data, FieldOrder)

\* UniversalNewsSpider.parse_article on a response whose extract_all_fields
\* result is response.extracted_data: the items yielded (none or one) and the
\* statistic counted.
parse_article(response, start, now_iso) ==
    LET data == response.extracted_data
    IN  IF ~response.has_extractor THEN [items |-> <<>>, counted |-> "none"]
        ELSE IF "title" \notin DOMAIN data \/ ~Truthy(data["title"])
        THEN [items |-> <<>>, counted |-> "articles_failed"]
        ELSE IF /\ "publish_time" \in DOMAIN data
                /\ Truthy(data["publish_time"])
                /\ ~is_valid_date(data["publish_time"], start)
        THEN [items |-> <<>>, counted |-> "none"]
        ELSE [items |-> <<load_item(ArticleLoader(response, now_iso), now_iso)>>,
              counted |-> "articles_scraped"]

-----------------------------------------------------------------------------
(* pipelines.py: ValidationPipeline *)

\* ValidationPipeline.required_fields, in the order of the loop
required_fields == <<"title", "url", "source_name">>

MIN_TITLE_LENGTH == 10
MIN_CONTENT_LENGTH == 50

DropMissing(field) == "missing required field: " \o field
DropTitleShort == "title too short"
DropInvalidUrl == "invalid url"

\* lines 49-53: the first required field that is absent or empty, 0 for none
RECURSIVE FirstMissing(_, _)
FirstMissing(item, i) ==
    IF i > Len(required_fields) THEN 0
    ELSE IF Falsy(item, required_fields[i]) THEN i
    ELSE FirstMissing(item, i + 1)

\* lines 63-69: whether the short-content warning is logged
ContentWarning(item) ==
    LET content == Get(item, "content", "")
    IN  content # "" /\ Len(content) < MIN_CONTENT_LENGTH

\* A slip: the url format is tested before the title length.
ValidationProcessItemUrlFirst(item) ==
    LET missing == FirstMissing(item, 1)
        t == Get(item, "title", "")
        url == Get(item, "url", "")
    IN  IF missing # 0 THEN DropMissing(required_fields[missing])
        ELSE IF ~(StartsWith(url, "http://") \/ StartsWith(url, "https://"))
        THEN DropInvalidUrl
        ELSE IF Len(t) < MIN_TITLE_LENGTH THEN DropTitleShort
        ELSE Accepted

\* ValidationPipeline.process_item: "accepted" (the item is returned as it is)
\* or the reason of the DropItem raised
ValidationProcessItem(item) ==
    LET missing == FirstMissing(item, 1)
        t == Get(item, "title", "")
        url == Get(item, "url", "")
    IN  IF missing # 0 THEN DropMissing(required_fields[missing])
        ELSE IF Len(t) < MIN_TITLE_LENGTH THEN DropTitleShort
        ELSE IF ~(StartsWith(url, "http://") \/ StartsWith(url, "https://"))
        THEN DropInvalidUrl
        ELSE Accepted

-----------------------------------------------------------------------------
(* pipelines.py: DataCleaningPipeline *)

\* line 202: the site-name suffixes, in the order the loop visits them
TitleSuffixes == <<" - CNN", " - BBC News", " | Reuters">>

\* lines 203-204, one iteration of the loop over the suffixes
StripSuffix(t, suffix) ==
    IF EndsWith(t, suffix) THEN Strip(SubSeq(t, 1, Len(t) - Len(suffix))) ELSE t

\* lines 202-204: the loop, every suffix tried once, in order, on the running title
RECURSIVE StripSuffixesFrom(_, _)
StripSuffixesFrom(t, i) ==
    IF i > Len(TitleSuffixes) THEN t
    ELSE StripSuffixesFrom(StripSuffix(t, TitleSuffixes[i]), i + 1)

\* DataCleaningPipeline._clean_title
clean_title(t) ==
    IF t = "" THEN ""
    ELSE LET collapsed == Join(" ", SplitWs(t))
             trimmed == StripChars(collapsed, {"\n", "\r", "\t"})
         IN  StripSuffixesFrom(trimmed, 1)

UpperChars == "ABCDEFGHIJKLMNOPQRSTUVWXYZ"
LowerChars == "abcdefghijklmnopqrstuvwxyz"

\* the lower-case letter of each upper-case letter
ToLower ==
    [c \in CharsOf(UpperChars) |->
        Char(LowerChars, CHOOSE i \in 1..26 : Char(UpperChars, i) = c)]

\* c.lower() of one character
LowerChar(c) == IF c \in DOMAIN ToLower THEN ToLower[c] ELSE c

\* s.lower()
RECURSIVE Lower(_)
Lower(s) == IF Len(s) = 0 THEN "" ELSE LowerChar(Char(s, 1)) \o Lower(Tail(s))

\* [line.strip() for line in lines if line.strip()]
RECURSIVE StripNonEmpty(_)
StripNonEmpty(lines) ==
    IF Len(lines) = 0 THEN <<>>
    ELSE (IF Strip(lines[1]) # "" THEN <<Strip(lines[1])>> ELSE <<>>)
             \o StripNonEmpty(Tail(lines))

\* DataCleaningPipeline._clean_content, of a str or a list of str
clean_content(content) ==
    LET text == IF IsList(content) THEN Join("\n", content.list) ELSE content.str
    IN  IF text = "" THEN "" ELSE Join("\n", StripNonEmpty(SplitOn(text, "\n")))

\* DataCleaningPipeline._clean_text
pipeline_clean_text(text) ==
    IF text = "" THEN "" ELSE Strip(Join(" ", SplitWs(text)))

\* DataCleaningPipeline._standardize_time of a str (a datetime is serialized
\* with IsoFormat before it reaches the item)
standardize_time(time_str) == Strip(time_str)

\* A slip: the query string is kept.
clean_url_keep_query(url) == IF url = "" THEN "" ELSE Strip(url)

\* DataCleaningPipeline._clean_url
clean_url(url) ==
    IF url = "" THEN ""
    ELSE LET u == Strip(url)
         IN  IF Contains(u, "?") THEN SplitOn(u, "?")[1] ELSE u

\* lines 294-301, the loop of _clean_image_list
RECURSIVE CleanImages(_)
CleanImages(images) ==
    IF Len(images) = 0 THEN <<>>
    ELSE LET img == Strip(images[1])
         IN  (IF StartsWith(img, "http://") \/ StartsWith(img, "https://")
                    \/ StartsWith(img, "//")
              THEN <<IF StartsWith(img, "//") THEN "https:" \o img ELSE img>>
              ELSE <<>>) \o CleanImages(Tail(images))

\* DataCleaningPipeline._clean_image_list, of a str or a list of str
clean_image_list(images) ==
    IF ~Truthy(images) THEN <<>> ELSE CleanImages(ArgToIter(images))

\* lines 322-328, the loop of _clean_tags
RECURSIVE CleanTags(_, _)
CleanTags(tags, seen) ==
    IF Len(tags) = 0 THEN <<>>
    ELSE LET tag == Lower(Strip(tags[1]))
         IN  IF tag # "" /\ tag \notin seen
             THEN <<tag>> \o CleanTags(Tail(tags), seen \cup {tag})
             ELSE CleanTags(Tail(tags), seen)

\* DataCleaningPipeline._clean_tags, of a str or a list of str
clean_tags(tags) ==
    IF ~Truthy(tags) THEN <<>> ELSE CleanTags(ArgToIter(tags), {})

\* the time fields of process_item, line 167
TimeFields == {"publish_time", "update_time", "crawl_time"}

\* DataCleaningPipeline.process_item on an item whose fields are str values
CleaningProcessItem(item) ==
    [f \in DOMAIN item |->
        IF item[f] = "" THEN item[f]
        ELSE IF f = "title" THEN clean_title(item[f])
        ELSE IF f = "content" THEN clean_content(StrV(item[f]))
        ELSE IF f = "summary" THEN pipeline_clean_text(item[f])
        ELSE IF f \in TimeFields THEN standardize_time(item[f])
        ELSE IF f = "url" THEN clean_url(item[f])
        ELSE IF f = "images" THEN clean_image_list(StrV(item[f]))
        ELSE IF f = "tags" THEN clean_tags(StrV(item[f]))
        ELSE item[f]]

-----------------------------------------------------------------------------
(* re: the patterns of date_parser.py and of datetime.strptime as syntax    *)
(* trees, matched by backtracking in the order the re module tries them.    *)

\* Python None
None == [none |-> TRUE]

\* one character out of the set chars
ReSet(chars) == [t |-> "set", chars |-> chars]
\* the literal text; icase compares lower-cased (re.IGNORECASE)
ReLit(text, icase) == [t |-> "lit", text |-> text, icase |-> icase]
\* the parts one after the other
ReCat(parts) == [t |-> "cat", parts |-> parts]
\* the first part that leads to a match, tried in listed order
ReAlt(parts) == [t |-> "alt", parts |-> parts]
\* lo to hi repetitions, as many as possible first (greedy); hi = -1 is
\* no upper limit
ReRep(re, lo, hi) == [t |-> "rep", re |-> re, lo |-> lo, hi |-> hi]
\* capturing group number k
ReGrp(k, re) == [t |-> "grp", k |-> k, re |-> re]

\* \d, \w and \s on ASCII text
ReDigit == ReSet(DigitSet)
ReWord == ReSet(CharsOf(DigitChars \o LowerChars \o UpperChars \o "_"))
ReSpace == ReSet(Whitespace)

\* The ways re can match in s from each of the states, in the order
\* backtracking tries them.  A state [pos, caps] is a position of s and the
\* spans <<first, last + 1>> of the groups matched before it; the result lists
\* the states after the match.
RECURSIVE ReMatch(_, _, _)
ReMatch(re, s, states) ==
    IF Len(states) = 0 THEN <<>>
    ELSE IF Len(states) > 1
         THEN ReMatch(re, s, <<states[1]>>) \o ReMatch(re, s, Tail(states))
    ELSE LET st == states[1]
             i == st.pos
         IN  CASE re.t = "set" ->
                    IF i <= Len(s) /\ Char(s, i) \in re.chars
                    THEN <<[st EXCEPT !.pos = i + 1]>> ELSE <<>>
               [] re.t = "lit" ->
                    LET j == i + Len(re.text)
                        got == SubSeq(s, i, j - 1)
                    IN  IF j <= Len(s) + 1
                           /\ (IF re.icase THEN Lower(got) ELSE got) = re.text
                        THEN <<[st EXCEPT !.pos = j]>> ELSE <<>>
               [] re.t = "cat" ->
                    IF Len(re.parts) = 0 THEN states
                    ELSE ReMatch([re EXCEPT !.parts = Tail(re.parts)], s,
                                 ReMatch(re.parts[1], s, states))
               [] re.t = "alt" ->
                    IF Len(re.parts) = 0 THEN <<>>
                    ELSE ReMatch(re.parts[1], s, states)
                             \o ReMatch([re EXCEPT !.parts = Tail(re.parts)], s, states)
               [] re.t = "rep" ->
                    LET once == SelectSeq(ReMatch(re.re, s, states),
                                          LAMBDA r : r.pos > i)
                        rest == [re EXCEPT !.lo = IF re.lo > 0 THEN re.lo - 1 ELSE 0,
                                           !.hi = IF re.hi > 0 THEN re.hi - 1 ELSE re.hi]
                    IN  (IF re.hi # 0 THEN ReMatch(rest, s, once) ELSE <<>>)
                            \o (IF re.lo <= 0 THEN states ELSE <<>>)
               [] re.t = "grp" ->
                    LET inner == ReMatch(re.re, s, states)
                    IN  [n \in 1..Len(inner) |->
                            [inner[n] EXCEPT !.caps[re.k] = <<i, inner[n].pos>>]]

\* no group has matched
NoCaps == [k \in 1..9 |-> <<>>]

\* the text of group k of a match m on s (match.group(k)), None if unmatched
ReGroup(s, m, k) ==
    IF m.caps[k] = <<>> THEN None ELSE SubSeq(s, m.caps[k][1], m.caps[k][2] - 1)

\* the first match of re at position i of s, or None (re.match for i = 1)
ReMatchAt(re, s, i) ==
    LET First(all) == IF Len(all) = 0 THEN None ELSE all[1]
    IN  First(ReMatch(re, s, <<[pos |-> i, caps |-> NoCaps]>>))

\* re.search(re, s): the first match at the leftmost position that has one
RECURSIVE ReSearchFrom(_, _, _)
ReSearchFrom(re, s, i) ==
    IF i > Len(s) + 1 THEN None
    ELSE LET Found(m) == IF m # None THEN m ELSE ReSearchFrom(re, s, i + 1)
         IN  Found(ReMatchAt(re, s, i))

ReSearch(re, s) == ReSearchFrom(re, s, 1)

-----------------------------------------------------------------------------
(* utils/date_parser.py.  Every parser gives Ok(datetime), Ok(None) or the   *)
(* exception it lets escape; datetime.now() is the argument now_dt.          *)

\* RELATIVE_PATTERNS in dict order: fixed is an offset in minutes, unit the
\* unit the first number of the text is multiplied with
RELATIVE_PATTERNS ==
    << [pattern |-> "just now", fixed |-> 0],
       [pattern |-> "a moment ago", fixed |-> 0],
       [pattern |-> "seconds ago", fixed |-> 0],
       [pattern |-> "a second ago", fixed |-> 0],
       [pattern |-> "a minute ago", fixed |-> 1],
       [pattern |-> "minutes ago", unit |-> "minutes"],
       [pattern |-> "an hour ago", fixed |-> 60],
       [pattern |-> "hours ago", unit |-> "hours"],
       [pattern |-> "a day ago", fixed |-> 1440],
       [pattern |-> "days ago", unit |-> "days"],
       [pattern |-> "yesterday", fixed |-> 1440],
       [pattern |-> "a week ago", fixed |-> 10080],
       [pattern |-> "weeks ago", unit |-> "weeks"],
       [pattern |-> "a month ago", fixed |-> 43200],
       [pattern |-> "months ago", unit |-> "months"],
       [pattern |-> "a year ago", fixed |-> 525600],
       [pattern |-> "years ago", unit |-> "years"] >>

MONTH_MAPPING ==
    [january |-> 1, february |-> 2, march |-> 3, april |-> 4, may |-> 5,
     june |-> 6, july |-> 7, august |-> 8, september |-> 9, october |-> 10,
     november |-> 11, december |-> 12,
     jan |-> 1, feb |-> 2, mar |-> 3, apr |-> 4, jun |-> 6, jul |-> 7,
     aug |-> 8, sep |-> 9, sept |-> 9, oct |-> 10, nov |-> 11, dec |-> 12]

\* datetime(year, month, day, hour, minute, second, microsecond), naive
NewDateTime(y, mo, d, h, mi, sec, us) ==
    IF ValidDateTime(y, mo, d, h, mi, sec) THEN Ok(DateTime(y, mo, d, h, mi, sec, us, NoTz))
    ELSE Raise("ValueError")

\* try: ... except Exception: return None
OrNone(r) == IF r.ok THEN r ELSE Ok(None)

parse_iso8601(date_string) ==
    OrNone(FromIsoFormat(IF EndsWith(date_string, "Z")
                         THEN SubSeq(date_string, 1, Len(date_string) - 1) \o "+00:00"
                         ELSE date_string))

\* now_dt - timedelta(<unit>=num)
MinusUnits(now_dt, unit, num) ==
    CASE unit = "minutes" -> MinusDelta(now_dt, 0, num)
      [] unit = "hours" -> MinusDelta(now_dt, 0, num * 60)
      [] unit = "days" -> MinusDelta(now_dt, num, 0)
      [] unit = "weeks" -> MinusDelta(now_dt, num * 7, 0)
      [] unit = "months" -> MinusDelta(now_dt, num * 30, 0)
      [] unit = "years" -> MinusDelta(now_dt, num * 365, 0)

\* the loop over RELATIVE_PATTERNS from entry k on: an entry with a unit and
\* no number in the text falls through to the next entry
RECURSIVE RelativeFrom(_, _, _, _)
RelativeFrom(k, date_string, date_lower, now_dt) ==
    IF k > Len(RELATIVE_PATTERNS) THEN Ok(None)
    ELSE LET p == RELATIVE_PATTERNS[k]
             Minus(numbers) ==
                 IF numbers = None
                 THEN RelativeFrom(k + 1, date_string, date_lower, now_dt)
                 ELSE MinusUnits(now_dt, p.unit,
                                 ToInt(ReGroup(date_string, numbers, 1)))
         IN  IF ~Contains(date_lower, p.pattern)
             THEN RelativeFrom(k + 1, date_string, date_lower, now_dt)
             ELSE IF "fixed" \in DOMAIN p THEN MinusDelta(now_dt, 0, p.fixed)
             ELSE Minus(ReSearch(ReGrp(1, ReRep(ReDigit, 1, -1)), date_string))

parse_relative_time(date_string, now_dt) ==
    RelativeFrom(1, date_string, Lower(date_string), now_dt)

\* the month names of %B, longest first as strptime lists them, and of %b
MonthNames ==
    <<"september", "february", "november", "december", "january", "october",
      "august", "march", "april", "june", "july", "may">>

MonthAbbrs ==
    <<"jan", "feb", "mar", "apr", "may", "jun", "jul", "aug", "sep", "oct",
      "nov", "dec">>

\* the alternatives of a directive, each a sequence of character sets
SetsAlt(alts) ==
    ReAlt([a \in 1..Len(alts) |->
              ReCat([c \in 1..Len(alts[a]) |-> ReSet(CharsOf(alts[a][c]))])])

\* the names as case-insensitive alternatives
NamesAlt(names) == ReAlt([n \in 1..Len(names) |-> ReLit(names[n], TRUE)])

\* the pattern strptime compiles for the directive %c; group numbers
\* 1..9 stand for Y m d H M S f B b
Directive(c) ==
    CASE c = "Y" -> ReGrp(1, ReRep(ReDigit, 4, 4))
      [] c = "m" -> ReGrp(2, SetsAlt(<< <<"1", "012">>, <<"0", "123456789">>,
                                        <<"123456789">> >>))
      [] c = "d" -> ReGrp(3, SetsAlt(<< <<"3", "01">>, <<"12", DigitChars>>,
                                        <<"0", "123456789">>, <<"123456789">>,
                                        <<" ", "123456789">> >>))
      [] c = "H" -> ReGrp(4, SetsAlt(<< <<"2", "0123">>, <<"01", DigitChars>>,
                                        <<DigitChars>> >>))
      [] c = "M" -> ReGrp(5, SetsAlt(<< <<"012345", DigitChars>>, <<DigitChars>> >>))
      [] c = "S" -> ReGrp(6, SetsAlt(<< <<"6", "01">>, <<"012345", DigitChars>>,
                                        <<DigitChars>> >>))
      [] c = "f" -> ReGrp(7, ReRep(ReDigit, 1, 6))
      [] c = "B" -> ReGrp(8, NamesAlt(MonthNames))
      [] c = "b" -> ReGrp(9, NamesAlt(MonthAbbrs))

\* the parts of the pattern of a strptime format from position i on: a
\* directive, \s+ for a run of whitespace, the character itself otherwise
RECURSIVE FormatParts(_, _)
FormatParts(fmt, i) ==
    IF i > Len(fmt) THEN <<>>
    ELSE IF Char(fmt, i) = "%"
         THEN <<Directive(Char(fmt, i + 1))>> \o FormatParts(fmt, i + 2)
    ELSE IF Char(fmt, i) \in Whitespace
         THEN LET rest == SubSeq(fmt, i, Len(fmt))
              IN  <<ReRep(ReSpace, 1, -1)>>
                      \o FormatParts(fmt, i + Len(rest) - Len(LStripChars(rest, Whitespace)))
    ELSE <<ReLit(Lower(Char(fmt, i)), TRUE)>> \o FormatParts(fmt, i + 1)

\* the position of name in names
IndexOf(names, name) == CHOOSE n \in 1..Len(names) : names[n] = name

common_formats ==
    <<"%Y-%m-%d %H:%M:%S", "%Y-%m-%d", "%d/%m/%Y", "%m/%d/%Y", "%d-%m-%Y",
      "%Y/%m/%d", "%B %d, %Y", "%b %d, %Y", "%d %B %Y", "%d %b %Y",
      "%Y-%m-%d %H:%M:%S.%f">>

\* the compiled pattern of each format (strptime keeps them in a cache)
FormatPattern ==
    [k \in 1..Len(common_formats) |-> ReCat(FormatParts(common_formats[k], 1))]

\* datetime.strptime(date_string, common_formats[f]): the pattern must match
\* at the start and use up the whole text, and the fields must make a date
StrpTime(date_string, f) ==
    LET Fields(m) ==
            LET has(g) == m.caps[g] # <<>>
                num(g, default) ==
                    IF has(g) THEN ToInt(Strip(ReGroup(date_string, m, g)))
                    ELSE default
                frac == IF has(7) THEN ReGroup(date_string, m, 7) ELSE "0"
                month == IF has(8)
                         THEN MONTH_MAPPING[Lower(ReGroup(date_string, m, 8))]
                         ELSE IF has(9)
                         THEN IndexOf(MonthAbbrs, Lower(ReGroup(date_string, m, 9)))
                         ELSE num(2, 1)
            IN  IF m = None THEN Raise("ValueError")
                ELSE IF m.pos # Len(date_string) + 1 THEN Raise("ValueError")
                ELSE NewDateTime(num(1, 1900), month, num(3, 1), num(4, 0),
                                 num(5, 0), num(6, 0),
                                 ToInt(frac \o SubSeq("000000", 1, 6 - Len(frac))))
    IN  Fields(ReMatchAt(FormatPattern[f], date_string, 1))

\* the first format strptime accepts the text under, None if there is none
RECURSIVE CommonFrom(_, _)
CommonFrom(k, date_string) ==
    IF k > Len(common_formats) THEN Ok(None)
    ELSE LET OrNext(r) == IF r.ok THEN r ELSE CommonFrom(k + 1, date_string)
         IN  OrNext(StrpTime(date_string, k))

parse_common_formats(date_string) == CommonFrom(1, date_string)

\* (\d{1,2}):(\d{2})\s*(AM|PM)\s*\w+,\s*(?:\w+,?\s+)?(\w+)\s+(\d{1,2}),\s+(\d{4})
\* compiled with re.IGNORECASE
CnnPattern ==
    ReCat(<< ReGrp(1, ReRep(ReDigit, 1, 2)), ReLit(":", FALSE),
             ReGrp(2, ReRep(ReDigit, 2, 2)), ReRep(ReSpace, 0, -1),
             ReGrp(3, ReAlt(<<ReLit("am", TRUE), ReLit("pm", TRUE)>>)),
             ReRep(ReSpace, 0, -1), ReRep(ReWord, 1, -1), ReLit(",", FALSE),
             ReRep(ReSpace, 0, -1),
             ReRep(ReCat(<< ReRep(ReWord, 1, -1), ReRep(ReLit(",", FALSE), 0, 1),
                            ReRep(ReSpace, 1, -1) >>), 0, 1),
             ReGrp(4, ReRep(ReWord, 1, -1)), ReRep(ReSpace, 1, -1),
             ReGrp(5, ReRep(ReDigit, 1, 2)), ReLit(",", FALSE),
             ReRep(ReSpace, 1, -1), ReGrp(6, ReRep(ReDigit, 4, 4)) >>)

\* A slip: noon is not excepted, 12 PM becomes hour 24.
parse_cnn_date_noon_pm(date_string) ==
    LET Date(match) ==
            LET g(k) == ReGroup(date_string, match, k)
                hour == ToInt(g(1))
                ampm == Lower(g(3))
                hour24 == IF ampm = "pm" THEN hour + 12
                          ELSE IF ampm = "am" /\ hour = 12 THEN 0
                          ELSE hour
            IN  IF match = None THEN Ok(None)
                ELSE IF Lower(g(4)) \notin DOMAIN MONTH_MAPPING THEN Ok(None)
                ELSE OrNone(NewDateTime(ToInt(g(6)), MONTH_MAPPING[Lower(g(4))],
                                        ToInt(g(5)), hour24, ToInt(g(2)), 0, 0))
    IN  Date(ReSearch(CnnPattern, date_string))

\* DateParser._parse_cnn_date
parse_cnn_date(date_string) ==
    LET Date(match) ==
            LET g(k) == ReGroup(date_string, match, k)
                hour == ToInt(g(1))
                ampm == Lower(g(3))
                hour24 == IF ampm = "pm" /\ hour # 12 THEN hour + 12
                          ELSE IF ampm = "am" /\ hour = 12 THEN 0
                          ELSE hour
            IN  IF match = None THEN Ok(None)
                ELSE IF Lower(g(4)) \notin DOMAIN MONTH_MAPPING THEN Ok(None)
                ELSE OrNone(NewDateTime(ToInt(g(6)), MONTH_MAPPING[Lower(g(4))],
                                        ToInt(g(5)), hour24, ToInt(g(2)), 0, 0))
    IN  Date(ReSearch(CnnPattern, date_string))

\* (\d{1,2})\s+(\w+)\s+(\d{4}): groups day, month name, year
BbcPattern1 ==
    ReCat(<< ReGrp(1, ReRep(ReDigit, 1, 2)), ReRep(ReSpace, 1, -1),
             ReGrp(2, ReRep(ReWord, 1, -1)), ReRep(ReSpace, 1, -1),
             ReGrp(3, ReRep(ReDigit, 4, 4)) >>)

\* (\w+)\s+(\d{1,2}),?\s+(\d{4}): groups month name, day, year
BbcPattern2 ==
    ReCat(<< ReGrp(2, ReRep(ReWord, 1, -1)), ReRep(ReSpace, 1, -1),
             ReGrp(1, ReRep(ReDigit, 1, 2)), ReRep(ReLit(",", FALSE), 0, 1),
             ReRep(ReSpace, 1, -1), ReGrp(3, ReRep(ReDigit, 4, 4)) >>)

\* a match of a BBC pattern whose month name is in MONTH_MAPPING
BbcMonthOk(date_string, match) ==
    match # None /\ Lower(ReGroup(date_string, match, 2)) \in DOMAIN MONTH_MAPPING

\* datetime(year=int(year), month=month, day=int(day)) of such a match
BbcDateTime(date_string, match) ==
    NewDateTime(ToInt(ReGroup(date_string, match, 3)),
                MONTH_MAPPING[Lower(ReGroup(date_string, match, 2))],
                ToInt(ReGroup(date_string, match, 1)), 0, 0, 0, 0)

\* _parse_relative_time is called outside the try: what it raises escapes
parse_bbc_date(date_string, now_dt) ==
    LET Date(relative_time, match1, match2) ==
            IF ~relative_time.ok THEN relative_time
            ELSE IF relative_time.value # None THEN relative_time
            ELSE IF BbcMonthOk(date_string, match1)
                 THEN OrNone(BbcDateTime(date_string, match1))
            ELSE IF BbcMonthOk(date_string, match2)
                 THEN OrNone(BbcDateTime(date_string, match2))
            ELSE Ok(None)
    IN  Date(parse_relative_time(date_string, now_dt),
             ReSearch(BbcPattern1, date_string), ReSearch(BbcPattern2, date_string))

\* A slip: the two site-specific parsers are listed the other way round.
AutoParsersBbcFirst == <<"iso8601", "relative", "common", "bbc_date", "cnn_date">>

\* the parsers of _auto_parse in priority order
AutoParsers == <<"iso8601", "relative", "common", "cnn_date", "bbc_date">>

\* the parser of that name applied to the (stripped) text
RunParser(name, date_string, now_dt) ==
    CASE name = "iso8601" -> parse_iso8601(date_string)
      [] name = "relative" -> parse_relative_time(date_string, now_dt)
      [] name = "common" -> parse_common_formats(date_string)
      [] name = "cnn_date" -> parse_cnn_date(date_string)
      [] name = "bbc_date" -> parse_bbc_date(date_string, now_dt)

\* the loop of _auto_parse from parser k on: the first result that is a
\* datetime; a parser that raises is skipped
RECURSIVE AutoFrom(_, _, _)
AutoFrom(k, date_string, now_dt) ==
    IF k > Len(AutoParsers) THEN Ok(None)
    ELSE LET Parsed(result) ==
                 IF result.ok /\ result.value # None THEN result
                 ELSE AutoFrom(k + 1, date_string, now_dt)
         IN  Parsed(RunParser(AutoParsers[k], date_string, now_dt))

auto_parse(date_string, now_dt) == AutoFrom(1, date_string, now_dt)

\* DateParser.parse(date_string, parser_type), which parse_date calls
parse_date(date_string, parser_type, now_dt) ==
    IF date_string = "" THEN Ok(None)
    ELSE IF parser_type \in {"iso8601", "cnn_date", "bbc_date", "relative"}
         THEN RunParser(parser_type, Strip(date_string), now_dt)
    ELSE auto_parse(Strip(date_string), now_dt)

-----------------------------------------------------------------------------
(* utils/extractor.py: DataExtractor.  A field_config is a dict; its css and  *)
(* xpath slots are a str or a list of str.  A response maps each slot and    *)
(* selector to what response.css(selector).getall() (or xpath) does: it      *)
(* gives a list of str, or it raises.  A field value is None, a str or a     *)
(* list of str.                                                              *)

invalid_patterns ==
    <<"icon", "logo", "placeholder", "avatar", "sprite", "blank", "spacer", "pixel">>

\* the loop of the unique filter: the items not seen before, in order
RECURSIVE UniqueFrom(_, _)
UniqueFrom(data, i) ==
    IF i > Len(data) THEN <<>>
    ELSE (IF \E j \in 1..(i - 1) : data[j] = data[i] THEN <<>> ELSE <<data[i]>>)
             \o UniqueFrom(data, i + 1)

\* A slip: the block list is compared with the url as written.
apply_filter_cased(data, filter_name) ==
    CASE filter_name = "valid_image" ->
            SelectSeq(data, LAMBDA url :
                /\ ~\E p \in 1..Len(invalid_patterns) :
                        Contains(url, invalid_patterns[p])
                /\ Len(url) > 20
                /\ (StartsWith(url, "http://") \/ StartsWith(url, "https://")
                        \/ StartsWith(url, "//")))
      [] filter_name = "remove_empty" ->
            SelectSeq(data, LAMBDA item : item # "" /\ Strip(item) # "")
      [] filter_name = "unique" -> UniqueFrom(data, 1)
      [] OTHER -> data

\* DataExtractor._apply_filter
apply_filter(data, filter_name) ==
    CASE filter_name = "valid_image" ->
            SelectSeq(data, LAMBDA url :
                /\ ~\E p \in 1..Len(invalid_patterns) :
                        Contains(Lower(url), invalid_patterns[p])
                /\ Len(url) > 20
                /\ (StartsWith(url, "http://") \/ StartsWith(url, "https://")
                        \/ StartsWith(url, "//")))
      [] filter_name = "remove_empty" ->
            SelectSeq(data, LAMBDA item : item # "" /\ Strip(item) # "")
      [] filter_name = "unique" -> UniqueFrom(data, 1)
      [] OTHER -> data

\* DataExtractor._apply_parser: StrV(text) or None.  A date that parses
\* gives its isoformat, an exception of parse_date gives None, and a
\* parse_date that returns None falls through to "return data".
apply_parser(data, parser_name, now_dt) ==
    LET Text(parsed_date) ==
            IF ~parsed_date.ok THEN None
            ELSE IF parsed_date.value # None THEN StrV(IsoFormat(parsed_date.value))
            ELSE StrV(data)
    IN  IF Contains(Lower(parser_name), "date")
               \/ parser_name \in {"auto", "iso8601", "cnn_date", "bbc_date"}
        THEN Text(parse_date(data, parser_name, now_dt))
        ELSE StrV(data)

\* lines 146-151: the parsed items that are not None and not empty
RECURSIVE ParsedFrom(_, _, _, _)
ParsedFrom(result, i, parser_name, now_dt) ==
    IF i > Len(result) THEN <<>>
    ELSE LET Kept(parsed) ==
                 IF parsed # None /\ parsed.str # "" THEN <<parsed.str>> ELSE <<>>
         IN  Kept(apply_parser(result[i], parser_name, now_dt))
                 \o ParsedFrom(result, i + 1, parser_name, now_dt)

\* A slip: "if join_str:", an empty separator counts as none configured.
process_result_join_truthy(result, config, now_dt) ==
    LET filter_name == Get(config, "filter", "")
        parser_name == Get(config, "parser", "")
        Joined(parsed) ==
            IF Len(parsed) = 0 THEN None
            ELSE IF "join" \in DOMAIN config /\ config["join"] # ""
                 THEN StrV(Join(config["join"],
                                SelectSeq(parsed, LAMBDA item : item # "")))
            ELSE IF Len(parsed) = 1 THEN StrV(parsed[1])
            ELSE ListV(parsed)
        Parsed(filtered) ==
            Joined(IF parser_name # "" /\ Len(filtered) > 0
                   THEN ParsedFrom(filtered, 1, parser_name, now_dt)
                   ELSE filtered)
        Filtered(stripped) ==
            Parsed(IF filter_name # "" THEN apply_filter(stripped, filter_name)
                   ELSE stripped)
    IN  Filtered(StripNonEmpty(result))

\* DataExtractor._process_result of a list of str: None, StrV or ListV
process_result(result, config, now_dt) ==
    LET filter_name == Get(config, "filter", "")
        parser_name == Get(config, "parser", "")
        \* lines 153-163
        Joined(parsed) ==
            IF Len(parsed) = 0 THEN None
            ELSE IF "join" \in DOMAIN config
                 THEN StrV(Join(config["join"],
                                SelectSeq(parsed, LAMBDA item : item # "")))
            ELSE IF Len(parsed) = 1 THEN StrV(parsed[1])
            ELSE ListV(parsed)
        \* lines 140-151
        Parsed(filtered) ==
            Joined(IF parser_name # "" /\ Len(filtered) > 0
                   THEN ParsedFrom(filtered, 1, parser_name, now_dt)
                   ELSE filtered)
        \* lines 132-138
        Filtered(stripped) ==
            Parsed(IF filter_name # "" THEN apply_filter(stripped, filter_name)
                   ELSE stripped)
    IN  Filtered(StripNonEmpty(result))

\* response.css(selector).getall() or response.xpath(selector).getall()
Query(response, priority, selector) ==
    IF priority = "css" THEN response.css[selector] ELSE response.xpath[selector]

\* a loop that returns whatever the first selector gives, empty or not
PresentOrNot(value) == TRUE

\* "is truthy" of a field value
Present(value) == value # None /\ Truthy(value)

\* a loop without the except clause: the exception escapes
ExceptNothing(r) == r

\* lines 94-96, except Exception: continue.  What the body of the try raised
\* is dropped and the selector counts as a miss.
ExceptContinue(r) == IF r.ok THEN r ELSE Ok(None)

\* lines 75-90, the body of the try for one selector: the processed result,
\* None when the query gives nothing, or the exception of the query
TrySelector(response, priority, selector, field_config, now_dt) ==
    LET result == Query(response, priority, selector)
    IN  IF ~result.ok THEN result
        ELSE IF Len(result.value) = 0 THEN Ok(None)
        ELSE Ok(process_result(result.value, field_config, now_dt))

\* lines 98-104: every selector failed.  The required flag only chooses the
\* level of the log record; None is returned either way.
AllFailed(field_config, queried) ==
    [result |-> Ok(None), queried |-> queried,
     log |-> IF Get(field_config, "required", FALSE) THEN "error" ELSE "debug"]

\* lines 74-104, the loop from selector i on.  queried lists the selectors
\* queried so far as <<slot, selector>>.
RECURSIVE ExtractFrom(_, _, _, _, _, _, _)
ExtractFrom(response, priority, selectors, i, field_config, now_dt, queried) ==
    IF i > Len(selectors) THEN AllFailed(field_config, queried)
    ELSE LET asked == Append(queried, <<priority, selectors[i]>>)
             Tried(r) ==
                 IF ~r.ok \/ Present(r.value)
                 THEN [result |-> r, queried |-> asked, log |-> ""]
                 ELSE ExtractFrom(response, priority, selectors, i + 1,
                                  field_config, now_dt, asked)
         IN  Tried(ExceptContinue(TrySelector(response, priority, selectors[i],
                                              field_config, now_dt)))

\* DataExtractor.extract_field: [result, queried, log], result Ok(field value)
\* or the exception that escapes, log the level of the record logged when
\* nothing was extracted
extract_field(response, field_config, now_dt) ==
    LET first == Get(field_config, "priority", "css")
        other == IF first = "css" THEN "xpath" ELSE "css"
        priority == IF Truthy(Get(field_config, first, ListV(<<>>)))
                    THEN first ELSE other
        selectors == Get(field_config, priority, ListV(<<>>))
    IN  IF ~Truthy(selectors)
        THEN [result |-> Ok(None), queried |-> <<>>, log |-> "warning"]
        ELSE ExtractFrom(response, priority, ArgToIter(selectors), 1,
                         field_config, now_dt, <<>>)

-----------------------------------------------------------------------------
(* Specification SpecDedup: one DeduplicationPipeline, process_item called  *)
(* one call after the other with arbitrary items.                           *)

DedupUrls == {"http://a/1", "http://a/2", "http://b/1"}

\* Items as process_item may be handed them: the id of the item's own url, the
\* id of another url, or no news_id at all.
DedupItems ==
    [url : DedupUrls, news_id : {generate_news_id(u) : u \in DedupUrls}]
        \cup {[url |-> u] : u \in DedupUrls}

Workers == {1, 2}

\* The parts of the state a specification does not use stay as constructed.
DedupIdle ==
    /\ seen_urls = DedupInit.seen_urls
    /\ seen_ids = DedupInit.seen_ids
    /\ duplicate_count = DedupInit.duplicate_count
    /\ calls = <<>>
    /\ pc = [w \in Workers |-> "idle"]
    /\ cur = [w \in Workers |-> [url |-> ""]]

TitleIdle == title = "" /\ title_hist = <<>>

SpiderIdle ==
    /\ now = 0
    /\ start_date = SpiderStartDate(1)
    /\ stats = [articles_scraped |-> 0, articles_failed |-> 0]
    /\ fetched = <<>>
    /\ scraped = <<>>
    /\ dropped = <<>>
    /\ stored = <<>>

\* no extract_field call is modelled
ExtractIdle ==
    cur_config = <<>> /\ cur_response = <<>> /\ extraction = [done |-> FALSE]

\* no field transform is applied
CleanIdle == cur_field = "" /\ value_hist = <<>>

\* no item is validated
ValidationIdle == validated = <<>>

\* no MultiSiteExtractor is constructed
RegistryIdle ==
    /\ resource = [kind |-> "missing"]
    /\ configs = <<>>
    /\ extractors = <<>>
    /\ load_local = [configs |-> <<>>, i |-> 0]
    /\ reg_pc = "none"
    /\ reg_call = [op |-> "none"]

\* no url is checked
UrlIdle == url_check = [done |-> FALSE]

\* no date is parsed
DateIdle == date_call = [done |-> FALSE]

\* no extraction result is post-processed
ProcessIdle == proc_call = [done |-> FALSE]

OtherIdle == CleanIdle /\ ValidationIdle /\ RegistryIdle /\ UrlIdle /\ DateIdle /\ ProcessIdle

InitDedup == DedupIdle /\ TitleIdle /\ SpiderIdle /\ ExtractIdle /\ OtherIdle

ProcessItem(item) ==
    /\ Len(calls) < MaxCalls
    /\ LET r == DedupProcessItem(DedupSelf, item)
       IN  /\ seen_urls' = r.self.seen_urls
           /\ seen_ids' = r.self.seen_ids
           /\ duplicate_count' = r.self.duplicate_count
           /\ calls' = Append(calls, [item |-> item, outcome |-> r.outcome])
    /\ UNCHANGED <<pc, cur, notDedup>>

NextDedup == \E item \in DedupItems : ProcessItem(item)

SpecDedup == InitDedup /\ [][NextDedup]_vars

\* C1: in a sequence of process_item calls, every call whose url was submitted
\* by an earlier call is dropped as a duplicate url, whatever its news_id; and a
\* call whose url was not submitted before and whose news_id is not among the
\* ids of the items accepted before is accepted.
C1_FirstUrlAcceptedLaterRejected ==
    \A j \in 1..Len(calls) :
        LET u == Get(calls[j].item, "url", "")
            id == Get(calls[j].item, "news_id", "")
            urlBefore == \E i \in 1..(j - 1) : Get(calls[i].item, "url", "") = u
            idSeen == \E i \in 1..(j - 1) :
                          /\ calls[i].outcome = Accepted
                          /\ Get(calls[i].item, "news_id", "") = id
        IN  /\ urlBefore => calls[j].outcome = DropDuplicateUrl
            /\ (~urlBefore /\ ~idSeen) => calls[j].outcome = Accepted

\* C1 witness: a url accepted once and submitted again with another news_id,
\* the second call dropped as a duplicate url.
C1_Witness ==
    \E i, j \in 1..Len(calls) :
        /\ i < j
        /\ Get(calls[i].item, "url", "") = Get(calls[j].item, "url", "")
        /\ Get(calls[i].item, "news_id", "") # Get(calls[j].item, "news_id", "")
        /\ calls[i].outcome = Accepted
        /\ calls[j].outcome = DropDuplicateUrl

\* The calls that raised DropItem.
RejectedCalls == {j \in 1..Len(calls) : calls[j].outcome # Accepted}

\* C2: duplicate_count is the number of process_item calls that were rejected,
\* so it is 0 before any call, one more after each rejection and the same after
\* each acceptance.
C2_DuplicateCountIsRejections == duplicate_count = Cardinality(RejectedCalls)

\* C2 witness: an accepted call, a call rejected for its url and a call
\* rejected for its id have all happened.
C2_Witness ==
    /\ \E j \in 1..Len(calls) : calls[j].outcome = Accepted
    /\ \E j \in 1..Len(calls) : calls[j].outcome = DropDuplicateUrl
    /\ \E j \in 1..Len(calls) : calls[j].outcome = DropDuplicateId
    /\ duplicate_count = 2

\* item.get("url", "") of the item of call j
UrlOfCall(j) == Get(calls[j].item, "url", "")

\* the calls whose item passed the url check: accepted, or rejected at the id
\* check that follows it
PassedUrlCheck(j) == calls[j].outcome \in {Accepted, DropDuplicateId}

\* C25 as stated: every url in seen_urls is the url of an item that was
\* accepted, that is, passed the url check and the id check.
C25_SeenUrlsAreAccepted ==
    \A u \in seen_urls :
        \E j \in 1..Len(calls) : calls[j].outcome = Accepted /\ UrlOfCall(j) = u

\* C25 amended: seen_urls holds exactly the urls of the items that passed the
\* url check, whether the id check then accepted or rejected them; a later
\* item with the url of an item rejected for its id is rejected as duplicate
\* url.
C25_SeenUrlsPassedUrlCheck ==
    /\ seen_urls = {UrlOfCall(j) : j \in {k \in 1..Len(calls) : PassedUrlCheck(k)}}
    /\ \A i, j \in 1..Len(calls) :
            (i < j /\ calls[i].outcome = DropDuplicateId
                   /\ UrlOfCall(j) = UrlOfCall(i))
                => calls[j].outcome = DropDuplicateUrl

\* an item is rejected for its id, and the next item, with the same url and an
\* id not seen before, is rejected for its url
C25_Witness ==
    /\ Len(calls) = 3
    /\ calls[1].outcome = Accepted
    /\ calls[2].outcome = DropDuplicateId
    /\ calls[3].outcome = DropDuplicateUrl
    /\ UrlOfCall(3) = UrlOfCall(2) /\ UrlOfCall(2) # UrlOfCall(1)
    /\ "news_id" \in DOMAIN calls[3].item
    /\ calls[3].item["news_id"] \notin seen_ids

-----------------------------------------------------------------------------
(* Specification SpecConc: process_item called by several workers at once.  *)
(* The method takes no lock, so the workers interleave between its           *)
(* statements: the membership test of line 109, the count and raise of       *)
(* lines 110-111, the insertion of line 112, the test of line 116, the count *)
(* and raise of lines 117-118 and the insertion of line 119.                 *)

\* a worker enters process_item(item)
Submit(w, item) ==
    /\ pc[w] = "idle"
    /\ Len(calls) + Cardinality({v \in Workers : pc[v] # "idle"}) < MaxCalls
    /\ pc' = [pc EXCEPT ![w] = "check_url"]
    /\ cur' = [cur EXCEPT ![w] = item]
    /\ UNCHANGED <<seen_urls, seen_ids, duplicate_count, calls, notDedup>>

\* line 109: if url in self.seen_urls
CheckUrl(w) ==
    /\ pc[w] = "check_url"
    /\ pc' = [pc EXCEPT ![w] = IF Get(cur[w], "url", "") \in seen_urls
                               THEN "drop_url" ELSE "add_url"]
    /\ UNCHANGED <<seen_urls, seen_ids, duplicate_count, calls, cur, notDedup>>

\* lines 110-111: self.duplicate_count += 1; raise DropItem
DropUrl(w) ==
    /\ pc[w] = "drop_url"
    /\ duplicate_count' = duplicate_count + 1
    /\ calls' = Append(calls, [item |-> cur[w], outcome |-> DropDuplicateUrl])
    /\ pc' = [pc EXCEPT ![w] = "idle"]
    /\ UNCHANGED <<seen_urls, seen_ids, cur, notDedup>>

\* line 112: self.seen_urls.add(url)
AddUrl(w) ==
    /\ pc[w] = "add_url"
    /\ seen_urls' = seen_urls \cup {Get(cur[w], "url", "")}
    /\ pc' = [pc EXCEPT ![w] = "check_id"]
    /\ UNCHANGED <<seen_ids, duplicate_count, calls, cur, notDedup>>

\* line 116: if news_id in self.seen_ids
CheckId(w) ==
    /\ pc[w] = "check_id"
    /\ pc' = [pc EXCEPT ![w] = IF Get(cur[w], "news_id", "") \in seen_ids
                               THEN "drop_id" ELSE "add_id"]
    /\ UNCHANGED <<seen_urls, seen_ids, duplicate_count, calls, cur, notDedup>>

\* lines 117-118: self.duplicate_count += 1; raise DropItem
DropId(w) ==
    /\ pc[w] = "drop_id"
    /\ duplicate_count' = duplicate_count + 1
    /\ calls' = Append(calls, [item |-> cur[w], outcome |-> DropDuplicateId])
    /\ pc' = [pc EXCEPT ![w] = "idle"]
    /\ UNCHANGED <<seen_urls, seen_ids, cur, notDedup>>

\* lines 119-122: self.seen_ids.add(news_id); return item
AddId(w) ==
    /\ pc[w] = "add_id"
    /\ seen_ids' = seen_ids \cup {Get(cur[w], "news_id", "")}
    /\ calls' = Append(calls, [item |-> cur[w], outcome |-> Accepted])
    /\ pc' = [pc EXCEPT ![w] = "idle"]
    /\ UNCHANGED <<seen_urls, duplicate_count, cur, notDedup>>

\* The items the concurrent workers submit.
ConcItems ==
    [url : {"http://a/1", "http://a/2"},
     news_id : {generate_news_id("http://a/1"), generate_news_id("http://a/2")}]

NextConc ==
    \E w \in Workers :
        \/ \E item \in ConcItems : Submit(w, item)
        \/ CheckUrl(w)
        \/ DropUrl(w)
        \/ AddUrl(w)
        \/ CheckId(w)
        \/ DropId(w)
        \/ AddId(w)

SpecConc == InitDedup /\ [][NextConc]_vars

\* C3: of the records submitted by concurrent workers, no two with the same
\* url, and no two with the same news_id, are both accepted.
C3_AtMostOneAcceptedPerKey ==
    \A i, j \in 1..Len(calls) :
        (i # j /\ calls[i].outcome = Accepted /\ calls[j].outcome = Accepted)
            => /\ Get(calls[i].item, "url", "") # Get(calls[j].item, "url", "")
               /\ Get(calls[i].item, "news_id", "")
                      # Get(calls[j].item, "news_id", "")

-----------------------------------------------------------------------------
(* Specification SpecTitle: _clean_title applied again and again to a title. *)

\* number of pieces a raw title is put together from
MaxPieces == 3

\* number of _clean_title passes over one title
MaxPasses == 2

TitlePieces == {"A", "b", " ", "\t ", " - CNN", " - BBC News", " | Reuters"}

RECURSIVE TitlesOf(_)
TitlesOf(n) ==
    IF n = 0 THEN {""}
    ELSE LET shorter == TitlesOf(n - 1)
         IN  shorter \cup {t \o p : t \in shorter, p \in TitlePieces}

Titles == TitlesOf(MaxPieces)

InitTitle ==
    /\ title \in Titles
    /\ title_hist = <<title>>
    /\ DedupIdle
    /\ SpiderIdle
    /\ ExtractIdle
    /\ OtherIdle

\* item["title"] = self._clean_title(item["title"])
CleanTitle ==
    /\ Len(title_hist) <= MaxPasses
    /\ title' = clean_title(title)
    /\ title_hist' = Append(title_hist, title')
    /\ UNCHANGED <<dedupVars, spiderVars, extractVars, otherVars>>

NextTitle == CleanTitle

SpecTitle == InitTitle /\ [][NextTitle]_vars

\* C10: the title transform is idempotent: cleaning a cleaned title leaves it
\* as it is, _clean_title(_clean_title(t)) = _clean_title(t).
C10_CleanTitleIdempotent ==
    Len(title_hist) >= 3 => title_hist[3] = title_hist[2]

\* the title with its whitespace collapsed to single spaces and trimmed
Collapsed(t) == Join(" ", SplitWs(t))

\* t without its last n characters, trimmed
WithoutLast(t, n) == Strip(SubSeq(t, 1, Len(t) - n))

\* C12: a cleaning pass strips exactly one known site-name suffix from the
\* end of the whitespace-collapsed title when it ends with one, never more
\* than one, and only collapses the whitespace of a title ending with none.
C12_OneSuffixStripped ==
    \A k \in 1..(Len(title_hist) - 1) :
        LET collapsed == Collapsed(title_hist[k])
            ending == {i \in DOMAIN TitleSuffixes :
                          EndsWith(collapsed, TitleSuffixes[i])}
        IN  IF ending = {} THEN title_hist[k + 1] = collapsed
            ELSE \E i \in ending :
                    title_hist[k + 1] = WithoutLast(collapsed, Len(TitleSuffixes[i]))

-----------------------------------------------------------------------------
(* Specification SpecPipeline: one crawl run.  parse_article is called with  *)
(* article responses and yields items; each item goes through the pipelines  *)
(* in the order of ITEM_PIPELINES (settings.py): ValidationPipeline 100,      *)
(* DeduplicationPipeline 200, DataCleaningPipeline 300, then storage.         *)

\* number of article responses of one run
MaxArticles == 2

\* days_back of the run
DaysBack == {1, 7}

ConfigCNN ==
    [name |-> "CNN", country |-> "US", language |-> "en",
     list_pages |-> <<[url |-> "http://a.com/world", category |-> "world"]>>]

\* a source configuration without a name
ConfigNameless == [country |-> "US", language |-> "en"]

GoodTitle == StrV("  Storm hits   the coast ")
SuffixTitle == StrV("Election results - CNN")

\* an article response: its url, the configuration of its source, whether the
\* registry still holds the source's extractor, and what extract_all_fields
\* finds on the page
Resp(url, config, data) ==
    [url |-> url, source_config |-> config, has_extractor |-> TRUE,
     extracted_data |-> data]

U1 == "http://a.com/world/1"
U1x == "http://a.com/world/1?ref=x"
U1y == "http://a.com/world/1?ref=y"
U2 == "http://a.com/n/2"

\* the article responses of the model
Responses ==
    { Resp(U1, ConfigCNN, [title |-> GoodTitle]),
      Resp(U1x, ConfigCNN, [title |-> GoodTitle]),
      Resp(U1y, ConfigCNN,
           [title |-> SuffixTitle, content |-> ListV(<<" First. ", "", "Second.">>),
            publish_time |-> StrV("2026-11-01T08:00:00")]),
      Resp(U1, ConfigCNN,
           [title |-> SuffixTitle, news_id |-> StrV("page-id"),
            url |-> StrV("http://a.com/canonical")]),
      Resp(U2, ConfigCNN, [title |-> GoodTitle]),
      Resp(U2, ConfigCNN,
           [title |-> GoodTitle, publish_time |-> StrV("2026-10-29T09:00:00")]),
      Resp(U2, ConfigCNN,
           [title |-> GoodTitle, publish_time |-> StrV("2020-01-01T00:00:00")]),
      Resp(U2, ConfigCNN,
           [title |-> GoodTitle, publish_time |-> StrV("2020-01-01T00:00:00+00:00")]),
      Resp(U2, ConfigCNN,
           [title |-> GoodTitle, publish_time |-> StrV("2020-01-01T00:00:00Z")]),
      Resp(U2, ConfigCNN, [title |-> GoodTitle, publish_time |-> StrV("last week")]),
      Resp(U2, ConfigCNN,
           [title |-> GoodTitle,
            publish_time |-> ListV(<<"2020-01-01T00:00:00", "2020-01-02T00:00:00">>)]),
      Resp(U2, ConfigCNN, [title |-> StrV("Short")]),
      Resp(U2, ConfigCNN, [content |-> StrV("text only")]),
      Resp(U2, ConfigNameless,
           [title |-> SuffixTitle, content |-> StrV("Some text.")]),
      [Resp(U2, ConfigCNN, [title |-> GoodTitle]) EXCEPT !.has_extractor = FALSE] }

InitPipeline ==
    /\ DedupIdle
    /\ TitleIdle
    /\ ExtractIdle
    /\ OtherIdle
    /\ now = 0
    /\ \E days_back \in DaysBack : start_date = SpiderStartDate(days_back)
    /\ stats = [articles_scraped |-> 0, articles_failed |-> 0]
    /\ fetched = <<>>
    /\ scraped = <<>>
    /\ dropped = <<>>
    /\ stored = <<>>

\* the engine calls parse_article(response); a second passes on the clock
ParseArticle(response) ==
    /\ Len(fetched) < MaxArticles
    /\ LET r == parse_article(response, start_date, IsoFormat(NowAt(now)))
       IN  /\ scraped' = scraped \o r.items
           /\ stats' = IF r.counted = "none" THEN stats
                       ELSE [stats EXCEPT ![r.counted] = @ + 1]
    /\ fetched' = Append(fetched, response)
    /\ now' = now + 1
    /\ UNCHANGED <<dedupVars, titleVars, extractVars, otherVars, start_date,
                   dropped, stored>>

\* the engine passes the oldest yielded item through the item pipelines
ItemPipeline ==
    /\ Len(scraped) > 0
    /\ LET item == Head(scraped)
           valid == ValidationProcessItem(item)
           dedup == DedupProcessItem(DedupSelf, item)
       IN  IF valid # Accepted
           THEN /\ dropped' = Append(dropped,
                       [stage |-> "validation", reason |-> valid, item |-> item])
                /\ UNCHANGED <<seen_urls, seen_ids, duplicate_count, calls, stored>>
           ELSE /\ seen_urls' = dedup.self.seen_urls
                /\ seen_ids' = dedup.self.seen_ids
                /\ duplicate_count' = dedup.self.duplicate_count
                /\ calls' = Append(calls, [item |-> item, outcome |-> dedup.outcome])
                /\ IF dedup.outcome # Accepted
                   THEN /\ dropped' = Append(dropped,
                               [stage |-> "deduplication", reason |-> dedup.outcome,
                                item |-> item])
                        /\ UNCHANGED stored
                   ELSE /\ stored' = Append(stored, CleaningProcessItem(item))
                        /\ UNCHANGED dropped
    /\ scraped' = Tail(scraped)
    /\ UNCHANGED <<pc, cur, titleVars, extractVars, otherVars, now, start_date,
                   stats, fetched>>

NextPipeline ==
    \/ \E response \in Responses : ParseArticle(response)
    \/ ItemPipeline

SpecPipeline == InitPipeline /\ [][NextPipeline]_vars

\* C4: of the records that left the pipelines, two with the same url have the
\* same news_id, and the news_id of each is the id generated from its url.
C4_StoredIdIsIdOfUrl ==
    /\ \A i, j \in 1..Len(stored) :
           stored[i]["url"] = stored[j]["url"]
               => stored[i]["news_id"] = stored[j]["news_id"]
    /\ \A i \in 1..Len(stored) :
           stored[i]["news_id"] = generate_news_id(stored[i]["url"])

\* The items parse_article has yielded so far, wherever they are by now:
\* dropped by ValidationPipeline, handed to DeduplicationPipeline, or waiting.
RECURSIVE ItemsOf(_)
ItemsOf(records) ==
    IF Len(records) = 0 THEN <<>> ELSE <<records[1].item>> \o ItemsOf(Tail(records))

YieldedItems ==
    ItemsOf(SelectSeq(dropped, LAMBDA d : d.stage = "validation"))
        \o ItemsOf(calls) \o scraped

\* C5: the news_id of an item parse_article builds is the id generated from the
\* item's url, so two items with the same url have the same news_id whatever
\* their title, content, source and crawl time.
C5_NewsIdFromUrlAlone ==
    \A i, j \in 1..Len(YieldedItems) :
        LET a == YieldedItems[i]
            b == YieldedItems[j]
        IN  /\ a["news_id"] = generate_news_id(a["url"])
            /\ a["url"] = b["url"] => a["news_id"] = b["news_id"]

\* C5 witness: two items built for the same url that differ in title, content,
\* source and crawl time, and carry the same news_id.
C5_Witness ==
    \E i, j \in 1..Len(YieldedItems) :
        LET a == YieldedItems[i]
            b == YieldedItems[j]
        IN  /\ a["url"] = b["url"]
            /\ a["title"] # b["title"]
            /\ a["crawl_time"] # b["crawl_time"]
            /\ "source_name" \in DOMAIN a /\ "source_name" \notin DOMAIN b
            /\ "content" \notin DOMAIN a /\ "content" \in DOMAIN b
            /\ a["news_id"] = b["news_id"]

\* the last process_item call rejected its item as duplicate url
LastRejectedUrl(made) ==
    Len(made) > 0 /\ made[Len(made)].outcome = DropDuplicateUrl

\* C23: the two dedup sets are empty when the pipeline is created and no
\* process_item call has been made; every step leaves each set a superset of
\* what it was; a step that is not a process_item call (another stage, the
\* spider) leaves both unchanged; so does a call rejected as duplicate url.
C23_DedupSetsOnlyGrow ==
    /\ (calls = <<>> => seen_urls = {} /\ seen_ids = {})
    /\ [][/\ seen_urls \subseteq seen_urls' /\ seen_ids \subseteq seen_ids'
          /\ (calls' = calls) => (seen_urls' = seen_urls /\ seen_ids' = seen_ids)
          /\ (calls' # calls /\ LastRejectedUrl(calls'))
                => (seen_urls' = seen_urls /\ seen_ids' = seen_ids)]_vars

\* a url and an id are recorded and the second process_item call rejected a
\* duplicate url
C23_Witness ==
    /\ seen_urls # {} /\ seen_ids # {}
    /\ Len(calls) = 2 /\ LastRejectedUrl(calls)

\* the response has an extractor and a title, so that only its date can make
\* parse_article skip it
Parseable(response) ==
    /\ response.has_extractor
    /\ "title" \in DOMAIN response.extracted_data
    /\ Truthy(response.extracted_data["title"])

\* no publish date was extracted, or a text that is no ISO-8601 date
DateAbsentOrUnreadable(response) ==
    LET data == response.extracted_data
    IN  \/ "publish_time" \notin DOMAIN data
        \/ /\ IsStr(data["publish_time"])
           /\ ~FromIsoFormat(Replace(data["publish_time"].str, "Z", "+00:00")).ok

\* C24: a parse_article call on an article with no publish date, or with a
\* publish_time text that does not read as a date, yields the item of that
\* article and counts it as scraped.
C24_UnreadableDateNotStale ==
    [][(fetched' # fetched /\ Parseable(fetched'[Len(fetched')])
            /\ DateAbsentOrUnreadable(fetched'[Len(fetched')]))
        => /\ Len(scraped') = Len(scraped) + 1
           /\ scraped'[Len(scraped')]["url"] = fetched'[Len(fetched')].url
           /\ stats'.articles_scraped = stats.articles_scraped + 1]_vars

\* the article with publish_time "last week" was parsed and its item yielded
C24_Witness ==
    /\ Len(fetched) = 1
    /\ "publish_time" \in DOMAIN fetched[1].extracted_data
    /\ fetched[1].extracted_data["publish_time"] = StrV("last week")
    /\ Len(scraped) = 1 /\ scraped[1]["url"] = fetched[1].url

\* C26: the records handed to storage in one run have pairwise distinct urls,
\* also when the fetched urls differ in their query string only.
C26_StoredUrlsDistinct ==
    \A i, j \in 1..Len(stored) : i # j => stored[i]["url"] # stored[j]["url"]

\* The text is a well-formed ISO-8601 instant earlier than start.  One without
\* offset is local time as start is, and the fields compare.  One with a utc
\* offset is earlier in every time zone the clock of the run may be set to
\* when its fields are more than two days before start.
EarlierInstant(text, start) ==
    LET parsed == FromIsoFormat(Replace(text, "Z", "+00:00"))
    IN  /\ parsed.ok
        /\ LexLess(DateTimeKey(parsed.value),
                   DateTimeKey(IF parsed.value.tz = NoTz THEN start
                               ELSE MinusDays(start, 2)))

\* C27: no item yielded by parse_article has a publish_time that is a
\* well-formed ISO-8601 instant earlier than start_date, with or without a
\* utc offset.
C27_NoStaleItemYielded ==
    \A i \in 1..Len(YieldedItems) :
        "publish_time" \in DOMAIN YieldedItems[i]
            => ~EarlierInstant(YieldedItems[i]["publish_time"], start_date)

-----------------------------------------------------------------------------
(* Specification SpecExtract: one extract_field call, for a field_config and  *)
(* a response chosen at the start.                                            *)

\* the selectors the configurations are written with, per slot
SelectorNames ==
    [css |-> {"h1.title::text", "h1::text"},
     xpath |-> {"//time/text()", "//time/@datetime"}]

\* the lists of distinct selectors out of names, the empty list included
SlotLists(names) ==
    {<<>>} \cup {<<a>> : a \in names}
           \cup {<<a, b>> : <<a, b>> \in {p \in names \X names : p[1] # p[2]}}

\* the values of a slot: a list of selectors, or one selector as a str
SlotValues(names) ==
    {ListV(l) : l \in SlotLists(names)} \cup {StrV(CHOOSE a \in names : TRUE)}

\* the dicts with the key left out, or set to one of the values
Optional(key, values) == {<<>>} \cup {key :> v : v \in values}

\* the configurations: every pair of slot values under every priority, with
\* and without the required flag, and the date parsers over two full slots
FieldConfigs ==
    { [css |-> c, xpath |-> x] @@ p @@ r :
        c \in SlotValues(SelectorNames.css),
        x \in SlotValues(SelectorNames.xpath),
        p \in Optional("priority", {"css", "xpath"}),
        r \in Optional("required", {TRUE}) }
    \cup
    { [css |-> ListV(<<"h1::text", "h1.title::text">>),
       xpath |-> ListV(<<"//time/@datetime", "//time/text()">>),
       parser |-> d] @@ p :
        d \in {"auto", "iso8601", "bbc_date", "pub_date"},
        p \in Optional("priority", {"css", "xpath"}) }

\* what the query of a selector can do on a page: raise, match nothing or
\* blank text only, or match the text the page has at that place
QueryOutcomes(selector) ==
    CASE selector = "h1.title::text" ->
            {Raise("ValueError"), Ok(<<>>), Ok(<<"  Big   Story  ">>)}
      [] selector = "h1::text" ->
            {Raise("ValueError"), Ok(<<"  ", "">>),
             Ok(<<"2024-12-21T10:30:00Z", "not a date">>)}
      [] selector = "//time/text()" ->
            {Raise("ValueError"), Ok(<<>>), Ok(<<" 21 December 2024">>)}
      [] selector = "//time/@datetime" ->
            {Ok(<<" ">>), Ok(<<>>), Ok(<<"3000 years ago">>)}

\* the responses: every selector of every slot with one of its outcomes
Documents ==
    { [css |-> c, xpath |-> x] :
        c \in { f \in [SelectorNames.css -> UNION {QueryOutcomes(n) : n \in SelectorNames.css}] :
                    \A n \in SelectorNames.css : f[n] \in QueryOutcomes(n) },
        x \in { f \in [SelectorNames.xpath -> UNION {QueryOutcomes(n) : n \in SelectorNames.xpath}] :
                    \A n \in SelectorNames.xpath : f[n] \in QueryOutcomes(n) } }

InitExtract ==
    /\ DedupIdle
    /\ TitleIdle
    /\ SpiderIdle
    /\ OtherIdle
    /\ cur_config \in FieldConfigs
    /\ cur_response \in Documents
    /\ extraction = [done |-> FALSE]

\* extractor.extract_field(response, field_name, field_config)
ExtractField ==
    /\ ~extraction.done
    /\ extraction' = [done |-> TRUE]
                        @@ extract_field(cur_response, cur_config, NowAt(0))
    /\ UNCHANGED <<dedupVars, titleVars, spiderVars, otherVars, cur_config,
                   cur_response>>

NextExtract == ExtractField

SpecExtract == InitExtract /\ [][NextExtract]_vars

\* the slot the priority key names, css by default, and the other slot
PrioritySlot == Get(cur_config, "priority", "css")
OtherSlot == IF PrioritySlot = "css" THEN "xpath" ELSE "css"

\* the selectors configured for a slot, as a list
SlotSelectors(slot) == ArgToIter(Get(cur_config, slot, ListV(<<>>)))

\* what post-processing makes of the query of one selector: None when the
\* query raises or matches nothing
Output(slot, selector) ==
    LET q == cur_response[slot][selector]
    IN  IF ~q.ok THEN None
        ELSE IF Len(q.value) = 0 THEN None
        ELSE process_result(q.value, cur_config, NowAt(0))

\* the positions in the list of a slot of the selectors that survive: the
\* query does not raise and its post-processed output is not empty
Survivors(slot) ==
    {i \in 1..Len(SlotSelectors(slot)) :
        LET out == Output(slot, SlotSelectors(slot)[i])
        IN  out # None /\ Truthy(out)}

\* the position of the first survivor of a slot, the length of its list if
\* there is none
LastQueried(slot) ==
    IF Survivors(slot) = {} THEN Len(SlotSelectors(slot))
    ELSE CHOOSE i \in Survivors(slot) : \A j \in Survivors(slot) : i <= j

\* the output of the first survivor of a slot, None if there is none
FirstSurviving(slot) ==
    IF Survivors(slot) = {} THEN None
    ELSE Output(slot, SlotSelectors(slot)[LastQueried(slot)])

\* C6: when both slots have selectors and every selector of the priority
\* slot misses, extract_field returns the first surviving result of the other
\* slot, and absent only if that slot misses too.
C6_FallsBackToOtherSlot ==
    (/\ extraction.done
     /\ Len(SlotSelectors(PrioritySlot)) > 0
     /\ Len(SlotSelectors(OtherSlot)) > 0
     /\ Survivors(PrioritySlot) = {})
        => extraction.result = Ok(FirstSurviving(OtherSlot))

\* the slot extract_field tries
TriedSlot ==
    IF Len(SlotSelectors(PrioritySlot)) > 0 THEN PrioritySlot ELSE OtherSlot

\* C7: the selectors of the tried slot are queried in listed order up to and
\* including the first survivor and no further (all of them when none
\* survives), and the result is the output of that first survivor.
C7_InOrderFirstSurvivorWins ==
    extraction.done =>
        /\ extraction.queried =
              [i \in 1..LastQueried(TriedSlot) |->
                  <<TriedSlot, SlotSelectors(TriedSlot)[i]>>]
        /\ extraction.result = Ok(FirstSurviving(TriedSlot))

\* the first selector raised, the second was queried next and won
C7_Witness ==
    /\ extraction.done
    /\ Len(extraction.queried) = 2
    /\ ~cur_response[TriedSlot][SlotSelectors(TriedSlot)[1]].ok
    /\ extraction.result.ok
    /\ extraction.result.value # None

\* C8: extract_field never raises; its result is None, a str or a list of
\* str, also for a required field and for a response whose queries raise.
C8_NeverRaises ==
    extraction.done =>
        /\ extraction.result.ok
        /\ LET v == extraction.result.value
           IN  \/ v = None
               \/ IsStr(v) /\ v.str \in STRING
               \/ IsList(v) /\ \A i \in 1..Len(v.list) : v.list[i] \in STRING

\* a required field, a query that raised, and None returned
C8_Witness ==
    /\ extraction.done
    /\ Get(cur_config, "required", FALSE)
    /\ \E i \in 1..Len(extraction.queried) :
          ~cur_response[extraction.queried[i][1]][extraction.queried[i][2]].ok
    /\ extraction.result = Ok(None)

\* C9: with a date parser configured, the value extracted holds ISO-8601
\* strings only: the elements the date parser cannot parse are dropped.
C9_OnlyIsoStringsKept ==
    (/\ extraction.done
     /\ "parser" \in DOMAIN cur_config
     /\ extraction.result.ok
     /\ extraction.result.value # None)
        => \A e \in {ArgToIter(extraction.result.value)[i] :
                        i \in 1..Len(ArgToIter(extraction.result.value))} :
              FromIsoFormat(e).ok

-----------------------------------------------------------------------------
(* Specification SpecClean: one field of an item cleaned again and again by  *)
(* the transform DataCleaningPipeline.process_item applies to that field.    *)

\* the texts put together from at most n of the pieces
RECURSIVE TextsOf(_, _)
TextsOf(pieces, n) ==
    IF n = 0 THEN {""}
    ELSE LET shorter == TextsOf(pieces, n - 1)
         IN  shorter \cup {t \o p : t \in shorter, p \in pieces}

\* a str, or a list of at most two str
StrOrList(texts, elements) ==
    {StrV(t) : t \in texts}
        \cup {ListV(<<>>)}
        \cup {ListV(<<e>>) : e \in elements}
        \cup {ListV(<<e1, e2>>) : e1 \in elements, e2 \in elements}

ContentPieces == {"a", " ", "\n", "\tb"}
SummaryPieces == {"a", " ", "\n", "\t b"}
UrlPieces == {"http://a/1", " ", "?", "x=1"}
ImagePieces == {"//a/b.jpg", "http://a/c.png", " ", "icon.png"}
TagPieces == {"News", "news", " ", "\t"}

\* the values item[f] may hold when the cleaning stage gets the item
FieldValues ==
    [content |-> StrOrList(TextsOf(ContentPieces, MaxPieces),
                           TextsOf(ContentPieces, 2)),
     summary |-> {StrV(t) : t \in TextsOf(SummaryPieces, MaxPieces)},
     publish_time |-> {StrV(t) : t \in {"", " 2024-12-21T10:30:00 ",
                                        "2024-12-21T10:30:00+00:00", "\t5 hours ago"}}
                          \cup {NowAt(tick) : tick \in 0..1},
     url |-> {StrV(t) : t \in TextsOf(UrlPieces, MaxPieces)},
     images |-> StrOrList(TextsOf(ImagePieces, 2), TextsOf(ImagePieces, 2)),
     tags |-> StrOrList(TextsOf(TagPieces, 2), TextsOf(TagPieces, 2))]

InitClean ==
    /\ cur_field \in DOMAIN FieldValues
    /\ \E v \in FieldValues[cur_field] : value_hist = <<v>>
    /\ DedupIdle
    /\ TitleIdle
    /\ SpiderIdle
    /\ ExtractIdle
    /\ ValidationIdle /\ RegistryIdle /\ UrlIdle /\ DateIdle /\ ProcessIdle

\* item[f] = transform(item[f]), one more pass over the field f
Cleaned(f, cleaned) ==
    /\ cur_field = f
    /\ Len(value_hist) <= MaxPasses
    /\ value_hist' = Append(value_hist, cleaned)
    /\ UNCHANGED <<cur_field, dedupVars, titleVars, spiderVars, extractVars,
                   validationVars, registryVars, urlVars, dateVars, processVars>>

\* line 160: item["content"] = self._clean_content(item["content"])
CleanContent ==
    Cleaned("content", StrV(clean_content(value_hist[Len(value_hist)])))

\* line 164: item["summary"] = self._clean_text(item["summary"])
CleanSummary ==
    Cleaned("summary", StrV(pipeline_clean_text(value_hist[Len(value_hist)].str)))

\* line 169: item[time_field] = self._standardize_time(item[time_field]); a
\* datetime is serialized (lines 250-251), a str is stripped (lines 254-255)
StandardizeTime ==
    LET time_str == value_hist[Len(value_hist)]
    IN  Cleaned("publish_time",
                StrV(IF IsStr(time_str) THEN standardize_time(time_str.str)
                     ELSE IsoFormat(time_str)))

\* line 173: item["url"] = self._clean_url(item["url"])
CleanUrl == Cleaned("url", StrV(clean_url(value_hist[Len(value_hist)].str)))

\* line 177: item["images"] = self._clean_image_list(item["images"])
CleanImageList ==
    Cleaned("images", ListV(clean_image_list(value_hist[Len(value_hist)])))

\* line 181: item["tags"] = self._clean_tags(item["tags"])
CleanTagList == Cleaned("tags", ListV(clean_tags(value_hist[Len(value_hist)])))

NextClean ==
    \/ CleanContent
    \/ CleanSummary
    \/ StandardizeTime
    \/ CleanUrl
    \/ CleanImageList
    \/ CleanTagList

SpecClean == InitClean /\ [][NextClean]_vars

\* the transform of field f, applied to its own output, returns that output
IdempotentOn(f) ==
    (cur_field = f /\ Len(value_hist) >= 3) => value_hist[3] = value_hist[2]

\* C11: each of the content, summary, time, url, images and tags transforms
\* is idempotent: a second pass over a cleaned value leaves it unchanged.
C11_FieldTransformsIdempotent ==
    \A f \in {"content", "summary", "publish_time", "url", "images", "tags"} :
        IdempotentOn(f)

-----------------------------------------------------------------------------
(* Specification SpecValidate: ValidationPipeline.process_item called with   *)
(* items one after the other; the stage keeps no state between the calls.    *)

\* a text of n characters
RECURSIVE TextOfLen(_)
TextOfLen(n) == IF n = 0 THEN "" ELSE "x" \o TextOfLen(n - 1)

\* the item with the field set, or without it
WithField(items, f, values) ==
    items \cup {[k \in DOMAIN item \cup {f} |-> IF k = f THEN v ELSE item[k]] :
                   item \in items, v \in values}

ValidationItems ==
    LET titles == {"", "short", TextOfLen(MIN_TITLE_LENGTH - 1),
                   TextOfLen(MIN_TITLE_LENGTH), "Storm hits the northern coast"}
        urls == {"", "http://a/1", "https://a/1", "ftp://x.com", "a/http://b"}
        names == {"", "CNN"}
        contents == {"", "tiny", TextOfLen(MIN_CONTENT_LENGTH - 1),
                     TextOfLen(MIN_CONTENT_LENGTH)}
    IN  WithField(WithField(WithField(WithField({<<>>}, "title", titles),
                                      "url", urls), "source_name", names),
                  "content", contents)

InitValidate ==
    /\ validated = <<>>
    /\ DedupIdle
    /\ TitleIdle
    /\ SpiderIdle
    /\ ExtractIdle
    /\ CleanIdle /\ RegistryIdle /\ UrlIdle /\ DateIdle /\ ProcessIdle

\* ValidationPipeline.process_item(item): the DropItem raised or the item
\* returned, and whether the short-content warning of lines 66-69 was logged
\* (it is reached once the required fields and the title length have passed)
Validate(item) ==
    /\ LET outcome == ValidationProcessItem(item)
           reached == outcome \in {DropInvalidUrl, Accepted}
       IN  validated' = <<[item |-> item,
                           outcome |-> outcome,
                           returned |-> IF outcome = Accepted THEN item ELSE None,
                           warned |-> reached /\ ContentWarning(item)]>>
    /\ UNCHANGED <<dedupVars, titleVars, spiderVars, extractVars, cleanVars,
                   registryVars, urlVars, dateVars, processVars>>

NextValidate == \E item \in ValidationItems : Validate(item)

SpecValidate == InitValidate /\ [][NextValidate]_vars

\* item.get(f) is absent or empty
AbsentOrEmpty(item, f) == f \notin DOMAIN item \/ item[f] = ""

\* C13: process_item rejects for the first of title, url, source_name that is
\* absent or empty; else rejects a title of fewer than 10 characters; else
\* rejects a url that starts with neither http:// nor https://; else returns
\* the item unchanged.  The content is not looked at for the decision: a
\* content of fewer than 50 characters only logs a warning.
C13_ValidationDecision ==
    \A i \in 1..Len(validated) :
        LET call == validated[i]
            item == call.item
        IN  /\ call.outcome =
                  IF AbsentOrEmpty(item, "title")
                  THEN "missing required field: title"
                  ELSE IF AbsentOrEmpty(item, "url")
                  THEN "missing required field: url"
                  ELSE IF AbsentOrEmpty(item, "source_name")
                  THEN "missing required field: source_name"
                  ELSE IF Len(item.title) < 10 THEN "title too short"
                  ELSE IF SubSeq(item.url, 1, 7) # "http://"
                          /\ SubSeq(item.url, 1, 8) # "https://"
                  THEN "invalid url"
                  ELSE "accepted"
            /\ call.outcome = "accepted" => call.returned = item
            /\ call.warned =>
                  /\ "content" \in DOMAIN item
                  /\ Len(item.content) \in 1..49

\* an item whose content has 4 characters was accepted, with the warning
C13_Witness ==
    \E i \in 1..Len(validated) :
        /\ validated[i].outcome = "accepted"
        /\ validated[i].warned
        /\ Len(validated[i].item.content) = 4

-----------------------------------------------------------------------------
(* utils/extractor.py: MultiSiteExtractor.  A dict is kept in insertion      *)
(* order, as the sequence of its <<key, value>> entries.                     *)

\* list(d.keys())
DictKeys(d) == [n \in 1..Len(d) |-> d[n][1]]

\* d.get(key)
DictGet(d, key) ==
    IF \E n \in 1..Len(d) : d[n][1] = key
    THEN d[CHOOSE n \in 1..Len(d) : d[n][1] = key][2]
    ELSE None

\* d[key] = value: a key already held keeps its place, a new one goes last
DictSet(d, key, value) ==
    IF \E n \in 1..Len(d) : d[n][1] = key
    THEN [n \in 1..Len(d) |-> IF d[n][1] = key THEN <<key, value>> ELSE d[n]]
    ELSE Append(d, <<key, value>>)

\* DataExtractor(config), lines 21-31
DataExtractor(config) == [config |-> config]

\* a JSON value that is an object; any other value has no .get
IsDict(config) == "json_string" \notin DOMAIN config

\* A slip: the enabled flag is not looked at.
EnabledAlways(config) == TRUE

\* line 347: config.get("enabled", True)
Enabled(config) == Get(config, "enabled", TRUE)

\* MultiSiteExtractor.get_config
get_config(source_id) == DictGet(configs, source_id)

\* MultiSiteExtractor.get_extractor
get_extractor(source_id) == DictGet(extractors, source_id)

\* MultiSiteExtractor.get_all_sources
get_all_sources == DictKeys(extractors)

\* what the three getters observe
Index == [configs |-> configs, extractors |-> extractors]

-----------------------------------------------------------------------------
(* Specification SpecRegistry: one MultiSiteExtractor, constructed and then  *)
(* reloaded again and again, statement by statement, while the configuration *)
(* file is replaced between the calls.                                       *)

SourceIds == {"cnn", "bbc"}

\* the values a source id may be given in the file: an object with or
\* without the enabled flag, or a value that is no object
SourceConfigs(id) ==
    {[name |-> id], [name |-> id, enabled |-> TRUE],
     [name |-> id, enabled |-> FALSE], [json_string |-> id]}

\* the entries the file may hold
SourceEntries ==
    UNION {{<<id, config>> : config \in SourceConfigs(id)} : id \in SourceIds}

\* the file: missing, no JSON, or a JSON object of at most two sources
Resources ==
    {[kind |-> "missing"], [kind |-> "malformed"]}
        \cup {[kind |-> "json", object |-> object] :
                 object \in {<<>>}
                     \cup {<<entry>> : entry \in SourceEntries}
                     \cup {pair \in SourceEntries \X SourceEntries :
                               pair[1][1] # pair[2][1]}}

InitRegistry ==
    /\ resource \in Resources
    /\ configs = <<>>
    /\ extractors = <<>>
    /\ load_local = [configs |-> <<>>, i |-> 0]
    /\ reg_pc = "none"
    /\ reg_call = [op |-> "none"]
    /\ DedupIdle
    /\ TitleIdle
    /\ SpiderIdle
    /\ ExtractIdle
    /\ CleanIdle /\ ValidationIdle /\ UrlIdle /\ DateIdle /\ ProcessIdle

notRegistry ==
    <<dedupVars, titleVars, spiderVars, extractVars, cleanVars, validationVars,
      urlVars, dateVars, processVars>>

\* MultiSiteExtractor.__init__, lines 327-330, up to the call of _load_configs
Construct ==
    /\ reg_pc = "none"
    /\ extractors' = <<>>
    /\ configs' = <<>>
    /\ reg_call' = [op |-> "init", before |-> Index, opened |-> "",
                    error |-> "", outcome |-> "running"]
    /\ reg_pc' = "load_open"
    /\ UNCHANGED <<resource, load_local, notRegistry>>

\* reload_configs is called
Reload ==
    /\ reg_pc = "idle"
    /\ reg_call' = [op |-> "reload", before |-> Index, opened |-> "",
                    error |-> "", outcome |-> "running"]
    /\ reg_pc' = "clear_extractors"
    /\ UNCHANGED <<resource, configs, extractors, load_local, notRegistry>>

\* line 399: self.extractors.clear()
ClearExtractors ==
    /\ reg_pc = "clear_extractors"
    /\ extractors' = <<>>
    /\ reg_pc' = "clear_configs"
    /\ UNCHANGED <<resource, configs, load_local, reg_call, notRegistry>>

\* line 400: self.configs.clear()
ClearConfigs ==
    /\ reg_pc = "clear_configs"
    /\ configs' = <<>>
    /\ reg_pc' = "load_open"
    /\ UNCHANGED <<resource, extractors, load_local, reg_call, notRegistry>>

\* _load_configs, lines 335-345: a missing file is logged and the method
\* returns (lines 337-339); a JSONDecodeError is caught and logged (359-360)
LoadOpen ==
    /\ reg_pc = "load_open"
    /\ IF resource.kind = "missing"
       THEN /\ reg_call' = [reg_call EXCEPT !.opened = "missing",
                                              !.error = "missing"]
            /\ reg_pc' = "return"
            /\ UNCHANGED load_local
       ELSE IF resource.kind = "malformed"
       THEN /\ reg_call' = [reg_call EXCEPT !.opened = "malformed",
                                              !.error = "JSONDecodeError"]
            /\ reg_pc' = "return"
            /\ UNCHANGED load_local
       ELSE /\ load_local' = [configs |-> resource.object, i |-> 1]
            /\ reg_pc' = "load_loop"
            /\ reg_call' = [reg_call EXCEPT !.opened = "json"]
    /\ UNCHANGED <<resource, configs, extractors, notRegistry>>

\* lines 346-347 and 354-357: the next entry of the loop; config.get of a
\* value that is no object raises, which line 361 catches and logs
LoadEntry ==
    /\ reg_pc = "load_loop"
    /\ IF load_local.i > Len(load_local.configs)
       THEN /\ reg_pc' = "return"
            /\ UNCHANGED <<load_local, reg_call>>
       ELSE LET config == load_local.configs[load_local.i][2]
            IN  IF ~IsDict(config)
                THEN /\ reg_call' = [reg_call EXCEPT !.error = "Exception"]
                     /\ reg_pc' = "return"
                     /\ UNCHANGED load_local
                ELSE IF Enabled(config)
                THEN /\ reg_pc' = "set_config"
                     /\ UNCHANGED <<load_local, reg_call>>
                ELSE /\ load_local' = [load_local EXCEPT !.i = @ + 1]
                     /\ UNCHANGED <<reg_pc, reg_call>>
    /\ UNCHANGED <<resource, configs, extractors, notRegistry>>

\* line 348: self.configs[source_id] = config
SetConfig ==
    /\ reg_pc = "set_config"
    /\ LET entry == load_local.configs[load_local.i]
       IN  configs' = DictSet(configs, entry[1], entry[2])
    /\ reg_pc' = "set_extractor"
    /\ UNCHANGED <<resource, extractors, load_local, reg_call, notRegistry>>

\* lines 349-353: self.extractors[source_id] = DataExtractor(config)
SetExtractor ==
    /\ reg_pc = "set_extractor"
    /\ LET entry == load_local.configs[load_local.i]
       IN  extractors' = DictSet(extractors, entry[1], DataExtractor(entry[2]))
    /\ load_local' = [load_local EXCEPT !.i = @ + 1]
    /\ reg_pc' = "load_loop"
    /\ UNCHANGED <<resource, configs, reg_call, notRegistry>>

\* _load_configs returns, and with it __init__ or reload_configs (line 402)
Return ==
    /\ reg_pc = "return"
    /\ reg_call' = [reg_call EXCEPT !.outcome = "returned"]
    /\ reg_pc' = "idle"
    /\ UNCHANGED <<resource, configs, extractors, load_local, notRegistry>>

\* between two calls the file is replaced
ReplaceResource ==
    /\ reg_pc = "idle"
    /\ resource' \in Resources \ {resource}
    /\ UNCHANGED <<configs, extractors, load_local, reg_pc, reg_call, notRegistry>>

NextRegistry ==
    \/ Construct
    \/ Reload
    \/ ClearExtractors
    \/ ClearConfigs
    \/ LoadOpen
    \/ LoadEntry
    \/ SetConfig
    \/ SetExtractor
    \/ Return
    \/ ReplaceResource

SpecRegistry == InitRegistry /\ [][NextRegistry]_vars

\* C14: constructing the registry from a missing or malformed configuration
\* file fails with an error; the constructor never returns normally then.
C14_LoadFailurePropagates ==
    (reg_call.op = "init" /\ reg_call.outcome = "returned")
        => reg_call.opened \notin {"missing", "malformed"}

\* every source of the parsed file is an object
WellFormed(object) == \A n \in 1..Len(object) : IsDict(object[n][2])

\* the entries of the parsed file whose enabled flag is not false
EnabledEntries(object) ==
    SelectSeq(object, LAMBDA entry : Get(entry[2], "enabled", TRUE) # FALSE)

\* the index holding exactly the enabled entries of the parsed file, in order
CompleteIndex(object) ==
    LET enabled == EnabledEntries(object)
    IN  [configs |-> enabled,
         extractors |-> [n \in 1..Len(enabled) |->
                            <<enabled[n][1], DataExtractor(enabled[n][2])>>]]

\* C15: during and after a reload the getters observe the complete index of
\* before the reload or the complete index of the file reloaded, and the
\* former when the file is missing or malformed.
C15_ReloadAtomic ==
    reg_call.op = "reload" =>
        \/ Index = reg_call.before
        \/ /\ reg_call.opened = "json"
           /\ WellFormed(load_local.configs)
           /\ Index = CompleteIndex(load_local.configs)

\* C16: after a load or reload of a well-formed file, get_all_sources is the
\* ids of the entries whose enabled flag is not false, in the order of the
\* file, and get_config and get_extractor are present for exactly those ids.
C16_IndexIsEnabledEntries ==
    (reg_pc = "idle" /\ reg_call.opened = "json" /\ WellFormed(load_local.configs))
        => LET enabled == EnabledEntries(load_local.configs)
               ids == [n \in 1..Len(enabled) |-> enabled[n][1]]
           IN  /\ get_all_sources = ids
               /\ \A id \in SourceIds \cup {"unknown"} :
                     LET listed == \E n \in 1..Len(ids) : ids[n] = id
                     IN  /\ (get_config(id) # None) = listed
                         /\ (get_extractor(id) # None) = listed

\* a reload of a file of two sources, one of them disabled, that changed the
\* index
C16_Witness ==
    /\ reg_pc = "idle"
    /\ reg_call.op = "reload"
    /\ reg_call.opened = "json"
    /\ WellFormed(load_local.configs)
    /\ Len(load_local.configs) = 2
    /\ Len(get_all_sources) = 1
    /\ reg_call.before # Index

-----------------------------------------------------------------------------
(* utils/extractor.py: DataExtractor.is_valid_article_url, and the           *)
(* specification SpecUrl: one call of it.                                    *)

\* re.search(pattern, url): a pattern is its text, whether it starts with ^
\* (it then matches at the start of the url only) and the syntax tree of the rest
PatternSearch(pattern, url) ==
    IF pattern.anchored THEN ReMatchAt(pattern.re, url, 1)
    ELSE ReSearch(pattern.re, url)

\* line 307: any exclude pattern is in url.lower()
RECURSIVE ExcludedFrom(_, _, _)
ExcludedFrom(exclude_patterns, i, url) ==
    IF i > Len(exclude_patterns) THEN FALSE
    ELSE IF Contains(Lower(url), exclude_patterns[i]) THEN TRUE
    ELSE ExcludedFrom(exclude_patterns, i + 1, url)

\* DataExtractor.is_valid_article_url, with self.config
is_valid_article_url(config, url) ==
    LET url_patterns == Get(config, "url_patterns", <<>>)
        exclude_patterns == Get(url_patterns, "exclude", <<>>)
        Searched(match) == match # None
    IN  IF "article" \in DOMAIN url_patterns
           /\ ~Searched(PatternSearch(url_patterns["article"], url))
        THEN FALSE
        ELSE ~ExcludedFrom(exclude_patterns, 1, url)

\* r"^https://example\.com/news/\d+", the pattern of line 426
NewsPattern ==
    [text |-> "^https://example\\.com/news/\\d+",
     anchored |-> TRUE,
     re |-> ReCat(<<ReLit("https://example.com/news/", FALSE), ReRep(ReDigit, 1, -1)>>)]

\* r"/story-\d+"
StoryPattern ==
    [text |-> "/story-\\d+",
     anchored |-> FALSE,
     re |-> ReCat(<<ReLit("/story-", FALSE), ReRep(ReDigit, 1, -1)>>)]

ExcludeEntries == {"video", "Video", "gallery", "GALLERY"}

\* the source configurations: with or without url_patterns, an article
\* pattern and an exclude list of at most two entries
UrlConfigs ==
    LET lists == {<<>>} \cup {<<e>> : e \in ExcludeEntries}
                     \cup {<<e1, e2>> : e1 \in ExcludeEntries, e2 \in ExcludeEntries}
    IN  {[name |-> "Test Site"]}
            \cup {[name |-> "Test Site", url_patterns |-> [article |-> p]] :
                     p \in {NewsPattern, StoryPattern}}
            \cup {[name |-> "Test Site", url_patterns |-> [exclude |-> l]] :
                     l \in lists}
            \cup {[name |-> "Test Site",
                   url_patterns |-> [article |-> p, exclude |-> l]] :
                     p \in {NewsPattern, StoryPattern}, l \in lists}

CheckedUrls ==
    {"https://example.com/news/12345", "https://example.com/video/12345",
     "https://example.com/news/7/Video", "https://example.com/news/8/gallery",
     "https://example.com/article/test", "http://b.org/world/story-42",
     "http://b.org/VIDEO/story-43", "https://example.com/news/"}

InitUrl ==
    /\ url_check = [done |-> FALSE]
    /\ DedupIdle
    /\ TitleIdle
    /\ SpiderIdle
    /\ ExtractIdle
    /\ CleanIdle /\ ValidationIdle /\ RegistryIdle /\ DateIdle /\ ProcessIdle

\* extractor.is_valid_article_url(url) on the extractor of a source
IsValidArticleUrl(config, url) ==
    /\ ~url_check.done
    /\ url_check' = [done |-> TRUE, config |-> config, url |-> url,
                     result |-> is_valid_article_url(config, url)]
    /\ UNCHANGED <<dedupVars, titleVars, spiderVars, extractVars, cleanVars,
                   validationVars, registryVars, dateVars, processVars>>

NextUrl == \E config \in UrlConfigs, url \in CheckedUrls : IsValidArticleUrl(config, url)

SpecUrl == InitUrl /\ [][NextUrl]_vars

\* the url matches the article pattern: it starts with
\* https://example.com/news/ and a digit, or holds /story- and a digit
MatchesArticle(pattern, url) ==
    IF pattern.text = NewsPattern.text
    THEN /\ Len(url) >= 26
         /\ SubSeq(url, 1, 25) = "https://example.com/news/"
         /\ IsDigit(Char(url, 26))
    ELSE \E i \in 1..(Len(url) - 7) :
            SubSeq(url, i, i + 6) = "/story-" /\ IsDigit(Char(url, i + 7))

\* C17: is_valid_article_url is false when an article pattern is configured
\* and the url does not match it, false when the url contains an exclude
\* entry whatever the letter case of the two, and true otherwise.
C17_UrlCheckCaseInsensitive ==
    url_check.done =>
        LET url_patterns == Get(url_check.config, "url_patterns", <<>>)
            exclude == Get(url_patterns, "exclude", <<>>)
            url == url_check.url
        IN  url_check.result =
                IF "article" \in DOMAIN url_patterns
                   /\ ~MatchesArticle(url_patterns.article, url)
                THEN FALSE
                ELSE ~\E i \in 1..Len(exclude) :
                        Contains(Lower(url), Lower(exclude[i]))

-----------------------------------------------------------------------------
(* Specification SpecDate: one call of DateParser.parse (parse_date), the    *)
(* clock at NowAt(tick) when it runs.                                        *)

\* "Updated H:MM AM EST, Thu December 21, 2024", the first form of the
\* docstring of _parse_cnn_date
CnnText(h, mm, marker) ==
    "Updated " \o ToString(h) \o ":" \o mm \o " " \o marker
        \o " EST, Thu December 21, 2024"

CnnHours == 1..12
CnnMinutes == {"00", "05", "59"}
CnnMarkers == {"AM", "PM", "am", "Pm"}

\* "N minutes ago", ..., "N years ago"
RelativeText(n, unit) == ToString(n) \o " " \o unit \o " ago"

\* the units of the numbered phrases, in minutes
RelativeUnits ==
    [minutes |-> 1, hours |-> 60, days |-> 1440, weeks |-> 10080,
     months |-> 43200, years |-> 525600]

RelativeNumbers == {0, 1, 5, 90, 3000}

\* the fixed phrases and their offsets in minutes
FixedPhrases ==
    [p \in {"just now", "a moment ago", "seconds ago", "a second ago"} |-> 0]
        @@ ("a minute ago" :> 1) @@ ("an hour ago" :> 60)
        @@ ("a day ago" :> 1440) @@ ("yesterday" :> 1440)
        @@ ("a week ago" :> 10080) @@ ("a month ago" :> 43200)
        @@ ("a year ago" :> 525600)

OtherTexts ==
    {"", "   ", "not a date", "in 5 minutes", "5 Minutes Ago", " yesterday ",
     "2024-12-21T10:30:00Z", "2024-12-21T10:30:00+08:00", "  2024-12-21 10:30:00  ",
     "2024-12-21", "21/12/2024", "12/21/2024", "Dec 21, 2024",
     "21 December 2024", "December 21, 2024", "31 February 2024",
     "Published 3:45 PM GMT, Monday, December 21, 2024",
     "3000 years ago, 10:30 AM EST, December 21, 2024",
     "3 hours ago, updated 2 minutes ago"}

ParserTypes == {"auto", "iso8601", "cnn_date", "bbc_date", "relative"}

\* the calls: text, parser type and the tick of the clock
DateCalls ==
    {<<CnnText(h, mm, marker), type, 0>> :
        h \in CnnHours, mm \in CnnMinutes, marker \in CnnMarkers,
        type \in {"auto", "cnn_date"}}
    \cup {<<RelativeText(n, unit), type, tick>> :
            n \in RelativeNumbers, unit \in DOMAIN RelativeUnits,
            type \in {"auto", "relative"}, tick \in 0..1}
    \cup {<<text, type, tick>> :
            text \in DOMAIN FixedPhrases \cup OtherTexts, type \in ParserTypes,
            tick \in 0..1}

InitDate ==
    /\ date_call = [done |-> FALSE]
    /\ DedupIdle
    /\ TitleIdle
    /\ SpiderIdle
    /\ ExtractIdle
    /\ CleanIdle /\ ValidationIdle /\ RegistryIdle /\ UrlIdle /\ ProcessIdle

\* DateParser.parse(text, parser_type), datetime.now() giving NowAt(tick)
ParseDate(text, parser_type, tick) ==
    /\ ~date_call.done
    /\ date_call' = [done |-> TRUE, text |-> text, parser_type |-> parser_type,
                     now |-> NowAt(tick),
                     result |-> parse_date(text, parser_type, NowAt(tick))]
    /\ UNCHANGED <<dedupVars, titleVars, spiderVars, extractVars, cleanVars,
                   validationVars, registryVars, urlVars, processVars>>

NextDate == \E call \in DateCalls : ParseDate(call[1], call[2], call[3])

SpecDate == InitDate /\ [][NextDate]_vars

\* the strategies of auto: iso8601, relative, explicit formats, Form A, Form B
StrategyOrder == <<"iso8601", "relative", "common", "cnn_date", "bbc_date">>

\* what strategy k does with the text of the call
StrategyResult(k) ==
    RunParser(StrategyOrder[k], Strip(date_call.text), date_call.now)

\* the strategy gave an instant
Succeeds(r) == r.ok /\ r.value # None

\* C18: parse with strategy auto returns the result of the first of iso8601,
\* relative, explicit formats, Form A, Form B that succeeds, returns absent
\* exactly when all of them fail, and never raises.
C18_AutoFirstSuccessWins ==
    (date_call.done /\ date_call.parser_type = "auto") =>
        /\ date_call.result.ok
        /\ \A k \in DOMAIN StrategyOrder :
              (/\ Succeeds(StrategyResult(k))
               /\ \A j \in 1..(k - 1) : ~Succeeds(StrategyResult(j)))
                  => date_call.result = StrategyResult(k)
        /\ (date_call.result = Ok(None))
              = (\A k \in DOMAIN StrategyOrder : ~Succeeds(StrategyResult(k)))

\* a text that Form A and Form B both parse, to different instants, and the
\* instant of Form A returned
C18_Witness ==
    /\ date_call.done
    /\ date_call.parser_type = "auto"
    /\ Succeeds(StrategyResult(4))
    /\ Succeeds(StrategyResult(5))
    /\ StrategyResult(4) # StrategyResult(5)
    /\ date_call.result = StrategyResult(4)

\* C19: for a Form A text of hour h in 1..12 and minute m, the instant parsed
\* has hour h + 12 for PM and h # 12, hour 0 for AM and h = 12, hour h
\* otherwise (so an hour in 0..23), and minute m.
C19_TwelveHourClock ==
    date_call.done =>
        \A h \in CnnHours, mm \in CnnMinutes, marker \in CnnMarkers :
            date_call.text = CnnText(h, mm, marker) =>
                /\ Succeeds(date_call.result)
                /\ date_call.result.value.hour =
                       IF Lower(marker) = "pm" /\ h # 12 THEN h + 12
                       ELSE IF Lower(marker) = "am" /\ h = 12 THEN 0
                       ELSE h
                /\ date_call.result.value.hour \in 0..23
                /\ date_call.result.value.minute = ToInt(mm)

\* 12:05 AM parsed to 00:05, by the site-specific parser
C19_Witness ==
    /\ date_call.done
    /\ date_call.parser_type = "cnn_date"
    /\ date_call.text = CnnText(12, "05", "AM")
    /\ Succeeds(date_call.result)
    /\ date_call.result.value.hour = 0
    /\ date_call.result.value.minute = 5

\* the text holds a phrase of the table of relative times
HoldsPhrase(text) ==
    \E p \in DOMAIN FixedPhrases \cup {u \o " ago" : u \in DOMAIN RelativeUnits} :
        Contains(Lower(text), p)

\* C20: parse(text, relative) at time T returns T minus N times the unit for
\* "N minutes/hours/days/weeks/months/years ago", T minus the tabled offset
\* for a fixed phrase, and absent for a text holding no phrase of the table.
C20_RelativeOffsets ==
    (date_call.done /\ date_call.parser_type = "relative") =>
        /\ \A n \in RelativeNumbers, unit \in DOMAIN RelativeUnits :
              date_call.text = RelativeText(n, unit) =>
                  /\ Succeeds(date_call.result)
                  /\ date_call.result
                         = MinusDelta(date_call.now, 0, n * RelativeUnits[unit])
        /\ \A p \in DOMAIN FixedPhrases :
              date_call.text = p =>
                  date_call.result = MinusDelta(date_call.now, 0, FixedPhrases[p])
        /\ ~HoldsPhrase(date_call.text) => date_call.result = Ok(None)

-----------------------------------------------------------------------------
(* Specification SpecProcess: one call of DataExtractor._apply_filter or of  *)
(* DataExtractor._process_result, on a list of extracted texts.              *)

\* longest list of extracted texts handed to a call
MaxElements == 2

\* the texts a selector extracts: image urls around each test of the
\* valid_image filter, a text with blanks around it, and a blank text
ExtractedTexts ==
    {"//cdn.example.com/a.jpg", "icon.png", "https://cdn.example.com/Logo-big.png",
     "https://a.io/abcd.jpg", "https://a.io/abc.jpg", "ftp://cdn.example.com/a.jpg",
     " Big Story ", "  "}

\* the lists of 1 .. MaxElements extracted texts
ExtractedLists ==
    UNION {[1..n -> ExtractedTexts] : n \in 1..MaxElements}

\* the filter names of the configurations: the three the code knows and two it
\* does not
FilterNames == {"valid_image", "remove_empty", "unique", "images", "VALID_IMAGE"}

\* the field configurations: with and without a filter, with and without a
\* join separator, the empty separator included
ProcessConfigs ==
    { f @@ j : f \in Optional("filter", FilterNames),
               j \in Optional("join", {"", ", "}) }

InitProcess ==
    /\ proc_call = [done |-> FALSE]
    /\ DedupIdle
    /\ TitleIdle
    /\ SpiderIdle
    /\ ExtractIdle
    /\ CleanIdle /\ ValidationIdle /\ RegistryIdle /\ UrlIdle /\ DateIdle

\* self._apply_filter(data, filter_name, field_name)
ApplyFilter(data, filter_name) ==
    /\ ~proc_call.done
    /\ proc_call' = [done |-> TRUE, op |-> "_apply_filter", data |-> data,
                     filter_name |-> filter_name,
                     result |-> apply_filter(data, filter_name)]
    /\ UNCHANGED <<dedupVars, titleVars, spiderVars, extractVars, cleanVars,
                   validationVars, registryVars, urlVars, dateVars>>

\* self._process_result(result, config, field_name)
ProcessResult(result, config) ==
    /\ ~proc_call.done
    /\ proc_call' = [done |-> TRUE, op |-> "_process_result", data |-> result,
                     config |-> config,
                     result |-> process_result(result, config, NowAt(0))]
    /\ UNCHANGED <<dedupVars, titleVars, spiderVars, extractVars, cleanVars,
                   validationVars, registryVars, urlVars, dateVars>>

NextProcess ==
    \/ \E data \in ExtractedLists, filter_name \in FilterNames :
            ApplyFilter(data, filter_name)
    \/ \E result \in ExtractedLists, config \in ProcessConfigs :
            ProcessResult(result, config)

SpecProcess == InitProcess /\ [][NextProcess]_vars

\* the elements post-processing leaves of the call's list: trimmed, the blank
\* ones dropped, then filtered (the configurations here name no parser)
Remaining ==
    LET stripped == StripNonEmpty(proc_call.data)
    IN  IF "filter" \in DOMAIN proc_call.config
        THEN apply_filter(stripped, proc_call.config["filter"])
        ELSE stripped

\* the elements one after the other with sep between each two
RECURSIVE Concatenated(_, _)
Concatenated(sep, elements) ==
    IF Len(elements) = 1 THEN elements[1]
    ELSE elements[1] \o sep \o Concatenated(sep, Tail(elements))

\* C21: when post-processing leaves at least one element, the field value is
\* the elements concatenated with the join separator, as one string, if a
\* separator is configured (the empty one included); without a separator it
\* is the element itself if one remains, and the whole sequence in its order
\* if several remain.
C21_CombineStep ==
    (proc_call.done /\ proc_call.op = "_process_result" /\ Len(Remaining) > 0)
        => IF "join" \in DOMAIN proc_call.config
           THEN proc_call.result
                    = StrV(Concatenated(proc_call.config["join"], Remaining))
           ELSE IF Len(Remaining) = 1
           THEN proc_call.result = StrV(Remaining[1])
           ELSE proc_call.result = ListV(Remaining)

\* two elements remain and the empty separator is configured
C21_Witness ==
    /\ proc_call.done /\ proc_call.op = "_process_result"
    /\ "join" \in DOMAIN proc_call.config /\ proc_call.config["join"] = ""
    /\ Len(Remaining) = 2
    /\ IsStr(proc_call.result)

\* sub occurs in s when letter case is disregarded
OccursAnyCase(s, sub) ==
    \E i \in 1..(Len(s) - Len(sub) + 1) :
        Lower(SubSeq(s, i, i + Len(sub) - 1)) = Lower(sub)

\* the elements validImage is to keep
KeptImage(url) ==
    /\ Len(url) > 20
    /\ \E scheme \in {"http://", "https://", "//"} :
            Len(url) >= Len(scheme) /\ SubSeq(url, 1, Len(scheme)) = scheme
    /\ \A p \in 1..Len(invalid_patterns) : ~OccursAnyCase(url, invalid_patterns[p])

\* C22: valid_image keeps, in their order, exactly the elements longer than 20
\* characters that start with http://, https:// or // and hold no block-listed
\* substring in any letter case; a filter name the code does not know gives
\* the data back unchanged.
C22_ValidImageFilter ==
    (proc_call.done /\ proc_call.op = "_apply_filter")
        => /\ proc_call.filter_name = "valid_image"
                => proc_call.result = SelectSeq(proc_call.data, KeptImage)
           /\ proc_call.filter_name \notin {"valid_image", "remove_empty", "unique"}
                => proc_call.result = proc_call.data

\* valid_image called on a list with an element it keeps before one it drops
\* for its block-listed substring written in capitals
C22_Witness ==
    /\ proc_call.done /\ proc_call.op = "_apply_filter"
    /\ proc_call.filter_name = "valid_image"
    /\ proc_call.data = <<"//cdn.example.com/a.jpg",
                          "https://cdn.example.com/Logo-big.png">>
    /\ proc_call.result = <<"//cdn.example.com/a.jpg">>
====
